---- MODULE Spec2Model ----
(***************************************************************************)
(* A model of the BLab acoustic-analysis dashboard: the Split Audio Report *)
(* extraction handler and its duplicate-save guard, the trend aggregation  *)
(* of the Split Audio Trend and Report tabs, build_trend_summary, and the  *)
(* analysis paths of the Upload, Record and Split Audio Report tabs.       *)
(*                                                                         *)
(* Strings are sequences of tokens: "_" is a token of its own and every    *)
(* other token is a non-empty piece of text without an underscore, so that *)
(* f-string concatenation, str.split("_") and str.endswith work on them as *)
(* they do on Python strings.                                              *)
(***************************************************************************)
EXTENDS Integers, Sequences, FiniteSets, TLC

\* ------------------------------------------------------------------ bounds
\* Extraction requests (button clicks) over all browser sessions together.
MaxRequests == 3
\* Rows of feature CSVs in the store, over all stored files together.
MaxStoredRows == 2
\* Rows of the frame handed to build_trend_summary.
MaxDfRows == 3
\* Frames of a pitch track.
MaxFrames == 3
\* Frames of an audio file.
MaxSamples == 3
\* Temporary files left on disk.
MaxTemps == 2
\* Logins (reruns of the script by a logged-in visitor) over all visitors.
MaxLogins == 3
\* Folders and files under the logged-in user's folder.
MaxEntries == 4

\* ----------------------------------------------------------------- strings
US == "_"

\* f"{a}_{b}"
Join(a, b) == a \o <<US>> \o b

\* s.split("_")[0]: the tokens before the first underscore.
RECURSIVE SplitFirst(_)
SplitFirst(s) ==
  IF s = <<>> \/ Head(s) = US THEN <<>> ELSE <<Head(s)>> \o SplitFirst(Tail(s))

\* s.endswith("_" + suffix), suffix one token
EndsWith(s, suffix) ==
  /\ Len(s) >= 2
  /\ s[Len(s) - 1] = US
  /\ s[Len(s)] = suffix

\* ----------------------------------------------- Split Audio Report: inputs
\* Two browser sessions of the dashboard (two suffice to interleave requests).
Ops == {"opA", "opB"}

\* st.text_input("Session Date (YYYY-MM-DD)"): free text
Dates == {<<"2025-01-01">>, <<"2025-02-01">>}

\* st.selectbox("Select Task", TASKS): each task has a folder of its own, and
\* the model follows the requests on one of them.
TASKS == {<<"Rainbow passage">>}

\* What pm.Sound / to_pitch / estimate_f0_praat make of the loaded clip.
Analyses == {"voiced", "unvoiced", "raises"}

\* The four output names of report_exists_in_box, in the order uploaded.
ExpectedSuffixes == <<"features.csv", "pitch.png", "intensity.png", "spectrogram.png">>

OutputName(date, task, i) == Join(Join(date, task), <<ExpectedSuffixes[i]>>)

expected_names(date, task) ==
  {OutputName(date, task, i) : i \in 1..Len(ExpectedSuffixes)}

\* The names the else-branch of the handler uploads, in order (lines 193-207).
UploadNamesNoSpectrogram(date, task) ==
  [i \in 1..3 |-> OutputName(date, task, i)]

UploadNames(date, task) ==
  [i \in 1..Len(ExpectedSuffixes) |-> OutputName(date, task, i)]

\* f"{date}_{task}.wav", with the extension part of the task token's text
WavName(date, task) == Join(date, <<task[1] \o ".wav">>)

VARIABLES
  folder,     \* task -> the entries of the task folder (get_folder_items)
  uploadLog,  \* every upload the store accepted: <<name, request number,
              \* whether the request's duplicate check could list the folder>>
  reqNo,      \* extraction requests started so far
  pc,         \* op -> "idle" | "check" | "upload"
  req,        \* op -> the running (or last) request's inputs and position
  msgs,       \* op -> the messages the page shows for the request
  outcome,    \* op -> how the last request ended
  saw,        \* op -> what the duplicate check saw
  pre         \* op -> an expected name was in the folder when the request began

splitVars == <<folder, uploadLog, reqNo, pc, req, msgs, outcome, saw, pre>>

VARIABLES
  trendPath,  \* how many of BASE/<recorder>/<pid>/<task> exist (0..3)
  taskFiles,  \* Split Audio Trend's task folder: file name -> stored content
  sessions,   \* the Report tab's task folder: folder name -> its files
  lastRun,    \* the last trend aggregation: tab, store calls that raised, result
  repeated    \* the last run repeated its predecessor: same tab, same store,
              \* the same store calls raising

aggVars == <<trendPath, taskFiles, sessions, lastRun, repeated>>

VARIABLES
  analysed    \* the last "Analyse Audio" run of the Upload or the Record tab

anaVars == <<analysed>>

VARIABLES
  calc,       \* one clip and the result of the function applied to it
  temps,      \* the number of temporary WAV files on disk
  preview     \* the last waveform preview: its tab and how it ended

clipVars == <<calc, temps, preview>>

VARIABLES
  registry,     \* users.csv in the base folder: whether it exists, and its rows
  baseFolders,  \* the folders created in the base folder, by name; a folder's
                \* id is its position
  loginNo,      \* logins started so far
  lpc,          \* visitor -> "idle" | "create" | "write"
  lreq,         \* visitor -> the locals of the running handle_user_login call
  login,        \* visitor -> the last call: what it read, how it ended
  firstLogin    \* email -> the folder id its first call that returned gave

loginVars == <<registry, baseFolders, loginNo, lpc, lreq, login, firstLogin>>

VARIABLES
  box,          \* the folders and files under the logged-in user's folder:
                \* each entry its parent's id, its name, its type and its id
  saved,        \* the (pid, date, task) of the segments Audio Saver uploaded
  boxCall       \* the last call on the user's folder: its inputs, the entries
                \* before it, what it returned

boxVars == <<box, saved, boxCall>>

VARIABLES
  session_state,  \* the Report tab's keys of st.session_state, and the task
                  \* selected when report_ai_text was stored
  reportPage      \* the Report tab as last rendered: the task selected,
                  \* whether the buttons were drawn, the AI text displayed

cacheVars == <<session_state, reportPage>>

sideVars == <<clipVars, loginVars, boxVars, cacheVars>>

vars == <<splitVars, aggVars, anaVars, sideVars>>

\* ------------------------------------------------------------------- store
FileNames(entries) == {e.name : e \in {x \in entries : x.type = "file"}}

HasFile(entries, name) == name \in FileNames(entries)

\* client.uploads.upload_file, accepted: the folder holds a file of that name
\* (a file that was there under the name is overwritten).
StorePut(entries, name) == entries \cup {[name |-> name, type |-> "file"]}

\* ------------------------------------------------- report_exists_in_box
\* The duplicate check with all() for any().
report_exists_all(entries, date, task) ==
  \A name \in expected_names(date, task) : name \in FileNames(entries)

\* any(name in existing_names for name in expected_names), the listing given
report_exists(entries, date, task) ==
  \E name \in expected_names(date, task) : name \in FileNames(entries)

\* The duplicate check answering True when the listing raises.
report_exists_in_box_closed(entries, date, task, listOk) ==
  ~listOk \/ report_exists(entries, date, task)

\* report_exists_in_box: the answer of the try block when the listing is
\* given, False from the except block when it raises.
report_exists_in_box(entries, date, task, listOk) ==
  listOk /\ report_exists(entries, date, task)

\* --------------------------------------------------------------- messages
Msg(level, text) == [level |-> level, text |-> text]

MsgLoadError     == Msg("error", "Could not find or load audio file")
MsgExtractError  == Msg("error", "Feature extraction failed")
MsgNoF0          == Msg("warning", "No stable fundamental frequency detected.")
MsgCannotVerify  == Msg("warning", "Could not verify report existence")
MsgAlreadyExists == Msg("warning", "A report already exists for this session")
MsgNotSavedAgain == Msg("info", "Analysis completed but results were not saved again.")
MsgSaved         == Msg("success", "Features and plots saved to Box successfully.")

\* ------------------------------------------------------------------- Init
NoReq == [date |-> <<>>, task |-> <<>>, n |-> 0, next |-> 0]

\* The Split Audio Report state before any request, the segments to analyse,
\* one per date, in the task folder.
SplitStart(dates) ==
  /\ folder = [t \in TASKS |->
       {[name |-> WavName(d, t), type |-> "file"] : d \in dates}]
  /\ uploadLog = {}
  /\ reqNo = 0
  /\ pc = [o \in Ops |-> "idle"]
  /\ req = [o \in Ops |-> NoReq]
  /\ msgs = [o \in Ops |-> {}]
  /\ outcome = [o \in Ops |-> "none"]
  /\ saw = [o \in Ops |-> "none"]
  /\ pre = [o \in Ops |-> FALSE]

SplitIdle == SplitStart(Dates)

\* ------------------------------------------- split_audio_report_tab handler
Finish(o, how, shown) ==
  /\ pc' = [pc EXCEPT ![o] = "idle"]
  /\ outcome' = [outcome EXCEPT ![o] = how]
  /\ msgs' = [msgs EXCEPT ![o] = shown]

\* The click on "Extract and Save Features": the script reruns, loads the
\* segment (lines 130-152) and analyses it (lines 156-164).
Click(o, date, task, fetchOk, analysis) ==
  /\ pc[o] = "idle"
  /\ reqNo < MaxRequests
  /\ reqNo' = reqNo + 1
  /\ req' = [req EXCEPT ![o] = [date |-> date, task |-> task, n |-> reqNo + 1, next |-> 1]]
  /\ pre' = [pre EXCEPT ![o] =
               \E i \in 1..4 : HasFile(folder[task], OutputName(date, task, i))]
  /\ saw' = [saw EXCEPT ![o] = "none"]
  /\ IF ~fetchOk \/ ~HasFile(folder[task], WavName(date, task))
     THEN Finish(o, "load_failed", {MsgLoadError})
     ELSE IF analysis = "raises"
     THEN Finish(o, "failed", {MsgExtractError})
     ELSE IF analysis = "unvoiced"
     THEN Finish(o, "no_f0", {MsgNoF0})
     ELSE /\ pc' = [pc EXCEPT ![o] = "check"]
          /\ msgs' = [msgs EXCEPT ![o] = {}]
          /\ outcome' = [outcome EXCEPT ![o] = "running"]
  /\ UNCHANGED <<folder, uploadLog>>
  /\ UNCHANGED <<aggVars, anaVars, sideVars>>

\* Line 189: report_exists_in_box lists the task folder; a listing that raises
\* is reported and read as "no report" (lines 105-107).
Check(o, listOk) ==
  /\ pc[o] = "check"
  /\ LET entries == folder[req[o].task]
         exists == report_exists_in_box(entries, req[o].date, req[o].task, listOk)
         warned == IF listOk THEN msgs[o] ELSE msgs[o] \cup {MsgCannotVerify}
     IN /\ saw' = [saw EXCEPT ![o] =
                     IF ~listOk THEN "failed" ELSE IF exists THEN "dup" ELSE "clear"]
        /\ IF exists
           THEN Finish(o, "exists", warned \cup {MsgAlreadyExists, MsgNotSavedAgain})
           ELSE /\ pc' = [pc EXCEPT ![o] = "upload"]
                /\ msgs' = [msgs EXCEPT ![o] = warned]
                /\ UNCHANGED outcome
  /\ UNCHANGED <<folder, uploadLog, reqNo, req, pre>>
  /\ UNCHANGED <<aggVars, anaVars, sideVars>>

\* Lines 193-209: one upload_to_user_box call; an upload that raises ends the
\* request in the handler's except (line 210).
Upload(o, ok) ==
  /\ pc[o] = "upload"
  /\ LET names == UploadNames(req[o].date, req[o].task)
         i == req[o].next
     IN IF ~ok
        THEN /\ Finish(o, "failed", msgs[o] \cup {MsgExtractError})
             /\ UNCHANGED <<folder, uploadLog, req>>
        ELSE /\ folder' = [folder EXCEPT ![req[o].task] = StorePut(@, names[i])]
             /\ uploadLog' = uploadLog \cup {<<names[i], req[o].n, saw[o] # "failed">>}
             /\ req' = [req EXCEPT ![o].next = i + 1]
             /\ IF i = Len(names)
                THEN Finish(o, "saved", msgs[o] \cup {MsgSaved})
                ELSE UNCHANGED <<pc, msgs, outcome>>
  /\ UNCHANGED <<reqNo, saw, pre>>
  /\ UNCHANGED <<aggVars, anaVars, sideVars>>

\* Single-operator use: a request starts only when no other is running.
ClickSeq(o, date, task, fetchOk, analysis) ==
  /\ \A p \in Ops : pc[p] = "idle"
  /\ Click(o, date, task, fetchOk, analysis)

NextSplitSeq ==
  \E o \in Ops :
    \/ \E d \in Dates, t \in TASKS, f \in BOOLEAN, a \in Analyses : ClickSeq(o, d, t, f, a)
    \/ \E l \in BOOLEAN : Check(o, l)
    \/ \E k \in BOOLEAN : Upload(o, k)

NextSplitConc ==
  \E o \in Ops :
    \/ \E d \in Dates, t \in TASKS, f \in BOOLEAN, a \in Analyses : Click(o, d, t, f, a)
    \/ \E l \in BOOLEAN : Check(o, l)
    \/ \E k \in BOOLEAN : Upload(o, k)



\* ------------------------------------------------------- feature tables
\* A CSV cell as pandas reads it: a number, NaN (an empty cell), or text that
\* is no number (the placeholders "—", "N/A", "-").
Num(x) == [k |-> "num", v |-> x]
NaN == [k |-> "nan", v |-> 0]
Placeholder == [k |-> "str", v |-> 0]

IsNum(c) == c.k = "num"

\* pd.to_numeric(..., errors="coerce")
to_numeric(c) == IF IsNum(c) THEN c ELSE NaN

FeatureNames == {"Pitch Mean (Hz)", "Energy Mean (dB)"}

CsvValues == {Num(150), Num(160), Placeholder}

CsvRows == [Feature : FeatureNames, Value : CsvValues]

BoundedSeq(S, n) == UNION {[1..k -> S] : k \in 0..n}

\* A stored file: a CSV with header Feature,Value and its rows, or bytes that
\* pd.read_csv rejects; NoFile where the folder has no such file.
Csv(rows) == [kind |-> "csv", rows |-> rows]
Garbage == [kind |-> "garbage", rows |-> <<>>]
NoFile == [kind |-> "absent", rows |-> <<>>]

Min(S) == CHOOSE x \in S : \A y \in S : x <= y
Max(S) == CHOOSE x \in S : \A y \in S : x >= y
Range(f) == {f[x] : x \in DOMAIN f}

RECURSIVE Concat(_)
Concat(seqs) == IF seqs = <<>> THEN <<>> ELSE Head(seqs) \o Concat(Tail(seqs))

\* df["Date"] = date_str / df["session"] = session_name
Tag(rows, label) ==
  [i \in 1..Len(rows) |->
     [Feature |-> rows[i].Feature, session |-> label, Value |-> rows[i].Value]]

Index(df) == {df[i].Feature : i \in 1..Len(df)}
Columns(df) == {df[i].session : i \in 1..Len(df)}
RowsOf(df, f, s) == {i \in 1..Len(df) : df[i].Feature = f /\ df[i].session = s}

NoTable == [index |-> {}, columns |-> {}, cell |-> <<>>]

HasDuplicates(df) ==
  \E f \in Index(df), s \in Columns(df) : Cardinality(RowsOf(df, f, s)) > 1

\* DataFrame.pivot(index="Feature", columns="Date", values="Value") of a frame
\* without duplicate (Feature, Date) pairs; with duplicates pivot raises
\* ValueError (TrendResult).
pivot(df) ==
  [index |-> Index(df), columns |-> Columns(df),
   cell |-> [c \in Index(df) \X Columns(df) |->
               IF RowsOf(df, c[1], c[2]) = {} THEN NaN
               ELSE df[Min(RowsOf(df, c[1], c[2]))].Value]]

\* groupby(...).agg("first"): the first value of the group that is not NaN
GroupFirst(df, f, s) ==
  LET valid == {i \in RowsOf(df, f, s) : IsNum(df[i].Value)}
  IN IF valid = {} THEN NaN ELSE df[Min(valid)].Value

\* df.pivot_table(index="Feature", columns="session", values="Value",
\* aggfunc="first"): groups whose aggregate is NaN are dropped before the
\* table is unstacked.
pivot_table(df) ==
  LET kept == {g \in Index(df) \X Columns(df) : IsNum(GroupFirst(df, g[1], g[2]))}
      index == {g[1] : g \in kept}
      columns == {g[2] : g \in kept}
  IN [index |-> index, columns |-> columns,
      cell |-> [c \in index \X columns |-> GroupFirst(df, c[1], c[2])]]

\* ------------------------------------------------- build_trend_summary
\* The tokens of session labels in the order Python compares them as strings.
TokenOrder ==
  <<"090000", "20250101", "2025-01-01", "2025-02-01", "20250201", "2025-03-01",
    US, "b", "notes", "session">>

Rank(t) == CHOOSE i \in 1..Len(TokenOrder) : TokenOrder[i] = t

\* a < b for two labels (str.__lt__): lexicographic, a proper prefix first
RECURSIVE LexLess(_, _)
LexLess(a, b) ==
  IF b = <<>> THEN FALSE
  ELSE IF a = <<>> THEN TRUE
  ELSE IF Head(a) = Head(b) THEN LexLess(Tail(a), Tail(b))
  ELSE Rank(Head(a)) < Rank(Head(b))

\* The orders sort_values("session") may leave the rows in: ascending by
\* label, rows of one label in any order (the default sort is not stable).
IsSortedOrder(df, p) ==
  \A i \in 1..(Len(df) - 1) : ~LexLess(df[p[i + 1]].session, df[p[i]].session)

SortedOrders(df) == {p \in Permutations(1..Len(df)) : IsSortedOrder(df, p)}

\* The frame left as it is, not sorted.
sort_values_unsorted(df, p) == df

\* df.sort_values("session"), p the order the sort produces
sort_values(df, p) == [i \in 1..Len(df) |-> df[p[i]]]

RECURSIVE Sum(_)
Sum(xs) == IF xs = <<>> THEN 0 ELSE Head(xs) + Sum(Tail(xs))

\* sum((n * x - sum(xs))^2): n^2 times the sum of squared deviations from the mean
RECURSIVE SumSqDev(_, _, _)
SumSqDev(xs, n, total) ==
  IF xs = <<>> THEN 0
  ELSE (n * Head(xs) - total) * (n * Head(xs) - total) + SumSqDev(Tail(xs), n, total)

\* A float that is no integer is kept as a fraction; 0/0 is NaN.
Frac(num, den) == [num |-> num, den |-> den]
Zero == Frac(0, 1)

\* Series.var(ddof): sum((x - mean)^2) / (n - ddof)
SeriesVar(xs, ddof) ==
  Frac(SumSqDev(xs, Len(xs), Sum(xs)), Len(xs) * Len(xs) * (Len(xs) - ddof))

\* The population standard deviation (ddof = 0) in the place of the sample one.
TrendStdPopulation(xs) == IF Len(xs) > 1 THEN SeriesVar(xs, 0) ELSE Zero

\* float(vals.std(ddof=1)) if vals.shape[0] > 1 else 0.0, kept as its square
TrendStd(xs) == IF Len(xs) > 1 THEN SeriesVar(xs, 1) ELSE Zero

\* pd.to_numeric(sub["Value"], errors="coerce").dropna()
NumericValues(sub) ==
  LET nums == SelectSeq(sub, LAMBDA r : IsNum(to_numeric(r.Value)))
  IN [i \in 1..Len(nums) |-> nums[i].Value.v]

SummaryRow(feat, vals) ==
  [Feature |-> feat,
   count |-> Len(vals),
   first |-> vals[1],
   last |-> vals[Len(vals)],
   change |-> vals[Len(vals)] - vals[1],
   mean |-> Frac(Sum(vals), Len(vals)),
   std |-> TrendStd(vals),
   min |-> Min(Range(vals)),
   max |-> Max(Range(vals))]

\* build_trend_summary(df): one row per feature that has a numeric value. The
\* rows of a feature are taken from the sorted frame, which orders them as
\* sorting the feature's rows does.
build_trend_summary(df, p) ==
  LET sorted == sort_values(df, p)
      vals(f) == NumericValues(SelectSeq(sorted, LAMBDA r : r.Feature = f))
  IN {SummaryRow(f, vals(f)) : f \in {g \in Index(df) : vals(g) # <<>>}}

\* ---------------------------------------------------- Split Audio Trend
TrendTask == <<"Rainbow passage">>

\* The task folder's possible files, in the order the store lists them: the
\* features CSVs of three session dates (two share the text before their
\* first underscore) and a plot image.
TrendNames ==
  << OutputName(<<"2025-01-01">>, TrendTask, 1),
     OutputName(<<"2025-01-01">>, TrendTask, 2),
     OutputName(<<"2025-01-01", US, "b">>, TrendTask, 1),
     OutputName(<<"2025-02-01">>, TrendTask, 1) >>

\* get_folder_items(...).entries
Listing(order, files) == SelectSeq(order, LAMBDA n : n \in DOMAIN files)

\* The folders the user's task folder may hold, in the order the store lists
\* them: two session_<timestamp> folders and a folder that is no session.
ReportNames ==
  << <<"session", US, "20250101", US, "090000">>,
     <<"session", US, "20250201", US, "090000">>,
     <<"notes">> >>

\* entry.name.startswith("session_")
IsSessionName(name) == Len(name) >= 2 /\ name[1] = "session" /\ name[2] = US

RECURSIVE SumRows(_, _)
SumRows(names, files) ==
  IF names = <<>> THEN 0
  ELSE Len(files[Head(names)].rows) + SumRows(Tail(names), files)

StoredRows ==
  SumRows(Listing(TrendNames, taskFiles), taskFiles)
    + SumRows(Listing(ReportNames, sessions), sessions)

\* The instructions of a prompt on populations and protected attributes: the
\* reference group it names, the attributes it asks the model to guess and
\* those it tells the model not to infer.
NoPrompt == [sent |-> FALSE, reference_group |-> "none", guess |-> {}, forbid |-> {}]

NoRun == [tab |-> "none", fails |-> {}, kind |-> "none", table |-> NoTable,
          df |-> <<>>, skipped |-> {}, listed |-> <<>>, summary |-> {}, ai |-> "none",
          prompt |-> NoPrompt]

\* The page before any analyse button was clicked.
NoClip == [pitch |-> <<>>, inten |-> <<>>, duration |-> 0, js |-> "values", cpp |-> "value"]

NoAnalysis == [tab |-> "none", clip |-> NoClip,
               features |-> <<>>, shown |-> {}, ai |-> "none", saved |-> "no",
               prompt |-> NoPrompt]

\* The aggregation state of a store without feature files.
AggIdle ==
  /\ taskFiles = <<>>
  /\ sessions = <<>>
  /\ lastRun = NoRun
  /\ repeated = FALSE

\* A features CSV (or a plot image) arrives in the trend task folder.
StoreTrendFile(name, content) ==
  /\ trendPath = 3
  /\ sessions = <<>>
  /\ name \notin DOMAIN taskFiles
  /\ (EndsWith(name, "features.csv") \/ content = Garbage)
  /\ StoredRows + Len(content.rows) <= MaxStoredRows
  /\ taskFiles' = [n \in DOMAIN taskFiles \cup {name} |->
                     IF n = name THEN content ELSE taskFiles[n]]
  /\ lastRun' = NoRun
  /\ repeated' = FALSE
  /\ UNCHANGED <<trendPath, sessions>>
  /\ UNCHANGED <<splitVars, anaVars, sideVars>>

\* f.type == "file" and f.name.endswith("_features.csv")
feature_files(entries) == SelectSeq(entries, LAMBDA n : EndsWith(n, "features.csv"))

\* A file of the loop of lines 64-74 is read when its download does not raise
\* and pd.read_csv accepts it.
Readable(files, failing, n) == n \notin failing /\ files[n].kind = "csv"

\* The files of the loop that were read: the others are skipped with a warning.
TrendLoaded(files, listed, failing) ==
  SelectSeq(listed, LAMBDA n : Readable(files, failing, n))

\* pd.concat(all_data) of the loaded files, each tagged with
\* file_item.name.split("_")[0]
TrendFrame(files, loaded) ==
  Concat([k \in 1..Len(loaded) |-> Tag(files[loaded[k]].rows, SplitFirst(loaded[k]))])

\* split_audio_trend_tab, lines 36-84, as one request. order is the order in
\* which the store lists the task folder, loc the ensure_task_folder call that
\* raises (0: none), listOk whether the listing of line 50 succeeds, failing
\* the files whose download raises.
TrendResultIn(order, files, loc, listOk, failing) ==
  LET fails == (IF loc # 0 THEN {<<"locate", loc>>} ELSE {})
                 \cup (IF listOk THEN {} ELSE {<<"list">>})
                 \cup {<<"download", n>> : n \in failing}
      base == [NoRun EXCEPT !.tab = "trend", !.fails = fails]
      listed == feature_files(Listing(order, files))
      loaded == TrendLoaded(files, listed, failing)
      df == TrendFrame(files, loaded)
      read == [base EXCEPT !.listed = listed, !.df = df,
                 !.skipped = Range(listed) \ Range(loaded)]
  IN IF loc # 0 THEN [base EXCEPT !.kind = "error_locate"]
     ELSE IF ~listOk THEN [base EXCEPT !.kind = "error_list"]
     ELSE IF listed = <<>> THEN [base EXCEPT !.kind = "warn_no_files"]
     ELSE IF loaded = <<>> THEN [read EXCEPT !.kind = "warn_none_valid"]
     ELSE IF HasDuplicates(df) THEN [read EXCEPT !.kind = "raised"]
     ELSE [read EXCEPT !.kind = "table", !.table = pivot(df)]

TrendResult(files, loc, listOk, failing) ==
  TrendResultIn(TrendNames, files, loc, listOk, failing)

TrendRequest(loc, listOk, failing) ==
  /\ sessions = <<>>
  /\ (loc # 0 => listOk /\ failing = {})
  /\ (~listOk => failing = {})
  \* each ensure_task_folder call that returns has found or created its folder
  /\ trendPath' = IF loc = 0 THEN 3 ELSE Max({trendPath, loc - 1})
  /\ LET run == TrendResult(taskFiles, loc, listOk, failing)
     IN /\ lastRun' = run
        /\ repeated' = (lastRun.tab = "trend" /\ lastRun.fails = run.fails)
  /\ UNCHANGED <<taskFiles, sessions>>
  /\ UNCHANGED <<splitVars, anaVars, sideVars>>

\* ------------------- Split Audio Trend over the Split Audio Report folder
\* The dates typed into "Session Date (YYYY-MM-DD)", free text: two in the
\* format asked for and one with an underscore.
SessionDates == << <<"2025-01-01">>, <<"2025-01-01", US, "b">>, <<"2025-02-01">> >>

\* The names the task folder of the Split Audio Report tab can hold, in the
\* order the store lists them: per date the segment and the four outputs.
ReportedNames ==
  Concat([i \in 1..Len(SessionDates) |->
            <<WavName(SessionDates[i], TrendTask)>>
              \o UploadNames(SessionDates[i], TrendTask)])

\* df.to_csv(csv_buf, index=False) of line 194, read back: the Feature and
\* Value columns, one row standing for the rows of summarize_features.
SavedFeatures == Csv(<<[Feature |-> "Pitch mean (Hz)", Value |-> Num(150)]>>)

\* The task folder the extraction requests wrote, as the trend tab finds it:
\* the logged-in user's folder is the folder named by the user's email, so
\* BASE/<recorder email>/<pid>/<task> is <folder_id>/<pid>/<task>.
ReportedFiles ==
  [n \in FileNames(folder[TrendTask]) |->
     IF EndsWith(n, "features.csv") THEN SavedFeatures ELSE Garbage]

\* The Split Audio Trend tab opened for the recorder, PID and task of the
\* extraction requests, no request running, the store answering every call.
TrendOfReports ==
  /\ \A o \in Ops : pc[o] = "idle"
  /\ lastRun' = TrendResultIn(ReportedNames, ReportedFiles, 0, TRUE, {})
  /\ repeated' = FALSE
  /\ UNCHANGED <<trendPath, taskFiles, sessions>>
  /\ UNCHANGED <<splitVars, anaVars, sideVars>>

\* ------------------------------------------------------------- AI review
\* The options of the Record tab's reference-group radio (lines 205-211).
ReferenceGroups ==
  {"Unknown / show both", "Adult male (self-reported)", "Adult female (self-reported)"}

\* The prompt of gemini_review_voice_with_audio (record_mode.py 78-95)
gemini_review_voice_with_audio(reference_group) ==
  [sent |-> TRUE, reference_group |-> reference_group,
   guess |-> {"gender/sex", "age"}, forbid |-> {}]

\* The prompt of gemini_analyse_report (report_mode.py 84-109)
gemini_analyse_report ==
  [sent |-> TRUE, reference_group |-> "none",
   guess |-> {}, forbid |-> {"gender/sex", "identity"}]

\* What the page keeps as the AI response: init_gemini's error text, the
\* model's response, or "Gemini failed: ..." for a call that raised.
AiText(ai) ==
  IF ai = "off" THEN "none"
  ELSE IF ai = "err" THEN "init_error"
  ELSE IF ai = "ok" THEN "response" ELSE "gemini_failed"

\* The AI block with a call that raises left to propagate.
AiStepUncaught(ai) == [text |-> AiText(ai), raised |-> ai = "raises"]

\* The AI block of report_tab (lines 202-222) and of record_tab (lines
\* 253-283): init_gemini, then the call inside try/except Exception.
AiStep(ai) == [text |-> AiText(ai), raised |-> FALSE]

\* ------------------------------------------------------------ Report tab
\* A folder arrives in the task folder as save_analysis_to_box leaves it:
\* empty, with audio.wav, or with audio.wav and features.csv.
StoreSession(name, audio, content) ==
  /\ taskFiles = <<>>
  /\ trendPath = 3
  /\ name \notin DOMAIN sessions
  /\ (content # NoFile => audio /\ IsSessionName(name))
  /\ (audio => IsSessionName(name))
  /\ StoredRows + Len(content.rows) <= MaxStoredRows
  /\ sessions' = [n \in DOMAIN sessions \cup {name} |->
                    IF n = name
                    THEN [kind |-> content.kind, rows |-> content.rows, audio |-> audio]
                    ELSE sessions[n]]
  /\ lastRun' = NoRun
  /\ repeated' = FALSE
  /\ UNCHANGED <<trendPath, taskFiles>>
  /\ UNCHANGED <<splitVars, anaVars, sideVars>>

\* entry.type == "folder" and entry.name.startswith("session_")
session_folders(entries) == SelectSeq(entries, LAMBDA n : IsSessionName(n))

\* The store calls of fetch_all_features, in the order it makes them.
RECURSIVE FetchCalls(_, _)
FetchCalls(folders, names) ==
  IF names = <<>> THEN <<>>
  ELSE << <<"list", Head(names)>> >>
         \o (IF folders[Head(names)].kind = "absent" THEN <<>>
             ELSE << <<"download", Head(names)>> >>
                    \o (IF folders[Head(names)].kind = "garbage"
                        THEN << <<"parse", Head(names)>> >> ELSE <<>>))
         \o FetchCalls(folders, Tail(names))

\* A store call of the fetch raises, or read_csv rejects a features.csv.
\* fail is the store call that raises, <<"none">> if none does.
FetchRaises(folders, fail) ==
  LET calls == << <<"list_task">> >>
                 \o FetchCalls(folders, session_folders(Listing(ReportNames, folders)))
  IN \E k \in 1..Len(calls) : calls[k] = fail \/ calls[k][1] = "parse"

\* fetch_all_features (lines 368-403): pd.concat(all_data), the rows of every
\* session's features.csv tagged with the session folder's name. Nothing in
\* it catches an exception: one failing session ends the fetch.
fetch_all_features(folders, fail) ==
  LET names == session_folders(Listing(ReportNames, folders))
      read == SelectSeq(names, LAMBDA n : folders[n].kind = "csv")
  IN IF FetchRaises(folders, fail) THEN [raised |-> TRUE, df |-> <<>>]
     ELSE [raised |-> FALSE,
           df |-> Concat([k \in 1..Len(read) |-> Tag(folders[read[k]].rows, read[k])])]

\* df["Value"] = pd.to_numeric(df["Value"], errors="coerce")
Coerce(df) ==
  [i \in 1..Len(df) |-> [df[i] EXCEPT !.Value = to_numeric(df[i].Value)]]

\* The pivot built from the frame as build_trend_summary's sort leaves it.
ReportTableSorted(df, p) == pivot_table(sort_values(df, p))

\* Line 198: the pivot is built from the fetched frame, in the order of the
\* fetch, whatever order the summary's sort produces.
ReportTable(df, p) == pivot_table(df)

\* report_tab, lines 152-242, for a click on "Generate Report" or "Analyse
\* Report with AI", the task's folder present in the user folder. gem is what
\* init_gemini and the Gemini call do, p the order in which sort_values
\* leaves the rows.
ReportResult(folders, button, fail, gem, p) ==
  LET base == [NoRun EXCEPT !.tab = "report", !.fails = {fail} \ {<<"none">>}]
      names == session_folders(Listing(ReportNames, folders))
      fetched == fetch_all_features(folders, fail)
      df == Coerce(fetched.df)
      withDf == [base EXCEPT !.listed = names, !.df = df]
      withAi == IF button # "ai" THEN withDf
                ELSE IF gem = "err" THEN [withDf EXCEPT !.ai = AiStep(gem).text]
                ELSE [withDf EXCEPT
                        !.summary = build_trend_summary(df, p),
                        !.prompt = gemini_analyse_report,
                        !.ai = AiStep(gem).text]
      shown == [withAi EXCEPT !.table = ReportTable(df, p)]
  IN IF fail = <<"list_user">> THEN [base EXCEPT !.kind = "error_user_folder"]
     ELSE IF fetched.raised THEN [base EXCEPT !.kind = "raised"]
     ELSE IF df = <<>> THEN [withDf EXCEPT !.kind = "warn_no_features"]
     ELSE IF button = "ai" /\ AiStep(gem).raised
     THEN [shown EXCEPT !.kind = "table_then_raised"]
     ELSE IF \E n \in Columns(df) : fail = <<"audio", n>>
     THEN [shown EXCEPT !.kind = "table_then_raised"]
     ELSE [shown EXCEPT !.kind = "table"]

\* The store calls a click can make: the listings and downloads of the
\* fetch, and the audio download of each session that has rows.
ReportCalls(folders) ==
  LET names == session_folders(Listing(ReportNames, folders))
  IN {<<"none">>, <<"list_user">>, <<"list_task">>}
       \cup {c \in Range(FetchCalls(folders, names)) : c[1] # "parse"}
       \cup {<<"audio", n>> : n \in Columns(fetch_all_features(folders, <<"none">>).df)}

ReportRequest(button, fail, gem, p) ==
  /\ taskFiles = <<>>
  /\ fail \in ReportCalls(sessions)
  /\ (button = "report" => gem = "ok")
  /\ IsSortedOrder(Coerce(fetch_all_features(sessions, fail).df), p)
  /\ LET run == ReportResult(sessions, button, fail, gem, p)
     IN /\ lastRun' = run
        /\ repeated' = (lastRun.tab = "report" /\ lastRun.fails = run.fails)
  /\ analysed' = NoAnalysis
  /\ UNCHANGED <<trendPath, taskFiles, sessions>>
  /\ UNCHANGED <<splitVars, sideVars>>

\* ------------------------------------------- build_trend_summary, alone
SummaryLabels == {<<"2025-01-01">>, <<"2025-02-01">>, <<"2025-03-01">>}

DfRows == [Feature : FeatureNames, session : SummaryLabels,
           Value : {Num(150), Num(160), NaN, Placeholder}]

Summarize(p) ==
  /\ lastRun.tab = "none"
  /\ IsSortedOrder(lastRun.df, p)
  /\ lastRun' = [lastRun EXCEPT !.tab = "summary",
                   !.summary = build_trend_summary(lastRun.df, p)]
  /\ UNCHANGED <<trendPath, taskFiles, sessions, repeated>>
  /\ UNCHANGED <<splitVars, anaVars, sideVars>>

\* ------------------------------------------------ Upload and Record tabs
\* The analysed region as Praat sees it: the frequency of each frame of its
\* pitch track (0 for a frame without voicing), the values of its intensity
\* contour, its duration in seconds, and what the jitter and shimmer queries
\* and the cepstral routine do.
Hz == {0, 100, 400}

Tracks == BoundedSeq(Hz, MaxFrames)

Intensities == {<<>>, <<60, 62>>}

SignalClips ==
  [pitch : Tracks, inten : Intensities, duration : {1, 2},
   js : {"values", "undefined", "raises"}, cpp : {"value", "raises"}]

\* The regions the tabs analyse: Praat's intensity contour has frames.
ClipTracks == {<<0, 0>>, <<100, 100, 400>>}

Clips ==
  [pitch : ClipTracks, inten : Intensities \ {<<>>}, duration : {2},
   js : {"values", "undefined", "raises"}, cpp : {"value", "raises"}]

None == [k |-> "none", v |-> 0]

\* The track has a frame with voicing.
Voiced(pitch) == \E i \in 1..Len(pitch) : pitch[i] # 0

\* A float, kept as a fraction.
Float(q) == [k |-> "float", num |-> q.num, den |-> q.den]

FloatEq(x, n, d) == x.k = "float" /\ x.num * d = n * x.den

RECURSIVE Insert(_, _)
Insert(x, s) ==
  IF s = <<>> THEN <<x>>
  ELSE IF x <= Head(s) THEN <<x>> \o s ELSE <<Head(s)>> \o Insert(x, Tail(s))

RECURSIVE Sort(_)
Sort(xs) == IF xs = <<>> THEN <<>> ELSE Insert(Head(xs), Sort(Tail(xs)))

\* np.mean
Mean(xs) == Frac(Sum(xs), Len(xs))

\* np.median: the middle value, or the mean of the two middle values
Median(xs) ==
  LET s == Sort(xs)
      n == Len(xs)
  IN IF n % 2 = 1 THEN Frac(s[(n + 1) \div 2], 1)
     ELSE Frac(s[n \div 2] + s[n \div 2 + 1], 2)

\* The mean of the frames in the place of their median.
estimate_f0_praat_mean(pitch) ==
  LET f0 == SelectSeq(pitch, LAMBDA f : f > 0)
  IN IF Len(f0) = 0 THEN None ELSE Float(Mean(f0))

\* analysis_utils.estimate_f0_praat
estimate_f0_praat(pitch) ==
  LET f0 == SelectSeq(pitch, LAMBDA f : f > 0)
  IN IF Len(f0) = 0 THEN None ELSE Float(Median(f0))

\* split_audio_report_mode.estimate_f0_praat
estimate_f0_praat_split(pitch) ==
  LET pitch_values == SelectSeq(pitch, LAMBDA f : f # 0)
  IN IF Len(pitch_values) = 0 THEN None ELSE Float(Mean(pitch_values))

\* compute_cpp with a zero where the routine raised.
compute_cpp_zero(clip) == Float(Frac(IF clip.cpp = "raises" THEN 0 ELSE 12, 1))

\* compute_cpp: the routine's value, None where it raised
compute_cpp(clip) == IF clip.cpp = "raises" THEN None ELSE Float(Frac(12, 1))

\* f"{x:.2f}": the text of x rounded to two decimals, kept as the number of
\* hundredths (no value here lies half-way between two hundredths).
Format2(x) == Num((200 * x.num + x.den) \div (2 * x.den))

\* float("...") of such a text, in hundredths again
FloatOfText(c) == c.v

Row(f, v) == [Feature |-> f, Value |-> v]

\* analysis_utils.summarize_features, as the rows of the features frame (of
\* the four jitter and shimmer rows the first stands for all). An undefined
\* Praat value is formatted as the text "nan", which read_csv reads as NaN.
summarize_features(clip) ==
  LET f0 == estimate_f0_praat(clip.pitch)
      f0_contour == SelectSeq(clip.pitch, LAMBDA f : f # 0)
      pitchMin == Format2(Frac(Min(Range(f0_contour)), 1))
      pitchMax == Format2(Frac(Max(Range(f0_contour)), 1))
      energyMin == Format2(Frac(Min(Range(clip.inten)), 1))
      energyMax == Format2(Frac(Max(Range(clip.inten)), 1))
      cpp_val == compute_cpp(clip)
  IN << Row("Fundamental Freq (Hz)", IF f0 # None THEN Format2(f0) ELSE Placeholder),
        Row("Audio duration", Format2(Frac(clip.duration, 1))) >>
       \o (IF clip.js = "raises" THEN << Row("Jitter/Shimmer", Placeholder) >>
           ELSE << Row("Jitter (local, %)",
                       IF clip.js = "values" THEN Format2(Frac(1, 1)) ELSE NaN) >>)
       \o (IF f0_contour # <<>>
           THEN << Row("Pitch Mean (Hz)", Format2(Mean(f0_contour))),
                   Row("Pitch Min (Hz)", pitchMin),
                   Row("Pitch Max (Hz)", pitchMax),
                   Row("Pitch Range (Hz)",
                       Num(FloatOfText(pitchMax) - FloatOfText(pitchMin))) >>
           ELSE <<>>)
       \o (IF Len(clip.inten) > 0
           THEN << Row("Energy Mean (dB)", Format2(Mean(clip.inten))),
                   Row("Energy Min (dB)", energyMin),
                   Row("Energy Max (dB)", energyMax),
                   Row("Energy Range (dB)",
                       Num(FloatOfText(energyMax) - FloatOfText(energyMin))) >>
           ELSE <<>>)
       \o << Row("CPP (dB)", IF cpp_val # None THEN Format2(cpp_val) ELSE Placeholder) >>

\* np.nan
FloatNaN == [k |-> "float_nan", v |-> 0]

\* np.std, kept as its square
Std(xs) == SeriesVar(xs, 0)

\* split_audio_report_mode.summarize_features: the dict, as its rows
summarize_features_split(clip) ==
  LET pitch_values == SelectSeq(clip.pitch, LAMBDA f : f # 0)
      inten_values == clip.inten
      some(xs, x) == IF Len(xs) > 0 THEN Float(x) ELSE FloatNaN
  IN << Row("Pitch mean (Hz)", some(pitch_values, Mean(pitch_values))),
        Row("Pitch std (Hz)", some(pitch_values, Std(pitch_values))),
        Row("Pitch min (Hz)", some(pitch_values, Frac(Min(Range(pitch_values)), 1))),
        Row("Pitch max (Hz)", some(pitch_values, Frac(Max(Range(pitch_values)), 1))),
        Row("Intensity mean (dB)", some(inten_values, Mean(inten_values))),
        Row("Intensity std (dB)", some(inten_values, Std(inten_values))),
        Row("Duration (s)", Float(Frac(clip.duration, 1))) >>

\* The store calls of save_analysis_to_box, in order: create_session_folder,
\* audio.wav, features.csv, the plots.
SaveCalls == 4

\* The session folder after the first `done` store calls of
\* save_analysis_to_box.
SavedSession(rows, done) ==
  [kind |-> IF done >= 3 THEN "csv" ELSE "absent",
   rows |-> IF done >= 3 THEN rows ELSE <<>>,
   audio |-> done >= 2]

AnaIdle == analysed = NoAnalysis

MsgNotSaved == Msg("info", "Analysis completed (not saved).")
MsgAnalysedSaved == Msg("success", "Analysed and saved results")

\* A click on "Analyse Audio" in the Upload tab (upload_mode.py 80-135) or on
\* one of the Record tab's two analyse buttons (record_mode.py 191-295), the
\* region non-empty. ai is what init_gemini and the Gemini call do, group the
\* reference group selected. Of save_analysis_to_box's store calls the first
\* `done` succeed; name is the session folder's name, later than every
\* stored one.
Analyse(tab, clip, save_auto, ai, group, done, name) ==
  /\ (tab = "upload" => ai = "off")
  /\ LET review == AiStep(ai)
         features == summarize_features(clip)
         rendered == [NoAnalysis EXCEPT
                        !.tab = tab, !.clip = clip, !.features = features,
                        !.ai = review.text,
                        !.prompt = IF ai \in {"ok", "raises"}
                                   THEN gemini_review_voice_with_audio(group)
                                   ELSE NoPrompt]
     IN IF estimate_f0_praat(clip.pitch) = None
        THEN /\ analysed' = [NoAnalysis EXCEPT !.tab = tab, !.clip = clip,
                                               !.shown = {MsgNoF0}]
             /\ UNCHANGED sessions
        ELSE IF review.raised
        THEN /\ analysed' = rendered
             /\ UNCHANGED sessions
        ELSE IF ~save_auto
        THEN /\ analysed' = [rendered EXCEPT !.shown = {MsgNotSaved}]
             /\ UNCHANGED sessions
        ELSE /\ IsSessionName(name)
             /\ \A m \in DOMAIN sessions : LexLess(m, name)
             /\ analysed' = [rendered EXCEPT
                               !.shown = IF done = SaveCalls THEN {MsgAnalysedSaved} ELSE {},
                               !.saved = IF done = SaveCalls THEN "saved" ELSE "raised"]
             /\ sessions' =
                  IF done = 0 THEN sessions
                  ELSE [n \in DOMAIN sessions \cup {name} |->
                          IF n = name THEN SavedSession(features, done)
                          ELSE sessions[n]]
  /\ lastRun' = NoRun
  /\ repeated' = FALSE
  /\ UNCHANGED <<trendPath, taskFiles>>
  /\ UNCHANGED <<splitVars, sideVars>>

\* ------------------------------------------------------------------ login
\* The browser sessions, and the identities Google reports for them.
Visitors == {"v1", "v2"}

Emails == {"ann@usf.edu", "bo@usf.edu", "cy@usf.edu"}

Usernames == {"Ann", "Bo"}

\* A folder id as the store returns it: a string of digits.
IdStr(n) == [type |-> "str", n |-> n]

NoId == [type |-> "none", n |-> 0]

\* df.to_csv writes an id as its digits, whatever its type; pd.read_csv reads
\* a column of digits as int64.
to_csv(df) == [i \in 1..Len(df) |-> [df[i] EXCEPT !.folder_id = [type |-> "text", n |-> @.n]]]

read_csv(rows) ==
  [i \in 1..Len(rows) |-> [rows[i] EXCEPT !.folder_id = [type |-> "int64", n |-> @.n]]]

NoRegistry == [exists |-> FALSE, rows |-> <<>>]

\* get_users_csv: the frame read, and whether there is a file id
get_users_csv(file) ==
  IF file.exists THEN [df |-> read_csv(file.rows), file_id |-> TRUE]
  ELSE [df |-> <<>>, file_id |-> FALSE]

\* The new row alone in the place of the frame with the row appended.
concat_row_only(df, username, email, folder_id) ==
  << [username |-> username, email |-> email, folder_id |-> folder_id] >>

\* pd.concat([df, new_row], ignore_index=True)
concat(df, username, email, folder_id) ==
  Append(df, [username |-> username, email |-> email, folder_id |-> folder_id])

NoLoginReq == [username |-> "", email |-> "", df |-> <<>>, file_id |-> FALSE,
               folder_id |-> NoId]

\* A call: its number, its arguments, the registry file and the folders when
\* it read the registry, how it ended and what it returned.
NoLogin == [n |-> 0, username |-> "", email |-> "", file |-> NoRegistry,
            folders |-> <<>>, kind |-> "none", folder_id |-> NoId, is_new |-> FALSE]

LoginIdle ==
  /\ registry = NoRegistry
  /\ baseFolders = <<>>
  /\ loginNo = 0
  /\ lpc = [v \in Visitors |-> "idle"]
  /\ lreq = [v \in Visitors |-> NoLoginReq]
  /\ login = [v \in Visitors |-> NoLogin]
  /\ firstLogin = [e \in Emails |-> NoId]

\* The call returns folder_id to the script.
Returns(email, folder_id) ==
  firstLogin' = [firstLogin EXCEPT ![email] = IF @ = NoId THEN folder_id ELSE @]

Raised(v) ==
  /\ lpc' = [lpc EXCEPT ![v] = "idle"]
  /\ lreq' = [lreq EXCEPT ![v] = NoLoginReq]

\* handle_user_login, lines 63-67: get_users_csv lists the base folder and
\* downloads users.csv; a row with the email ends the call.
LoginRead(v, username, email, fail) ==
  /\ lpc[v] = "idle"
  /\ loginNo < MaxLogins
  /\ fail = "download" => registry.exists
  /\ loginNo' = loginNo + 1
  /\ LET read == get_users_csv(registry)
         user_row == SelectSeq(read.df, LAMBDA r : r.email = email)
         call == [NoLogin EXCEPT !.n = loginNo + 1, !.username = username,
                                 !.email = email, !.file = registry,
                                 !.folders = baseFolders, !.kind = "running"]
     IN IF fail # "none"
        THEN /\ login' = [login EXCEPT ![v] = [call EXCEPT !.kind = "raised"]]
             /\ Raised(v)
             /\ UNCHANGED firstLogin
        ELSE IF user_row # <<>>
        THEN /\ login' = [login EXCEPT ![v] =
                            [call EXCEPT !.kind = "returned",
                                         !.folder_id = user_row[1].folder_id,
                                         !.is_new = FALSE]]
             /\ Returns(email, user_row[1].folder_id)
             /\ UNCHANGED <<lpc, lreq>>
        ELSE /\ login' = [login EXCEPT ![v] = call]
             /\ UNCHANGED firstLogin
             /\ lpc' = [lpc EXCEPT ![v] = "create"]
             /\ lreq' = [lreq EXCEPT ![v] =
                           [NoLoginReq EXCEPT !.username = username, !.email = email,
                                              !.df = read.df, !.file_id = read.file_id]]
  /\ UNCHANGED <<registry, baseFolders>>
  /\ UNCHANGED <<splitVars, aggVars, anaVars, clipVars, boxVars, cacheVars>>

\* Line 68: create_user_folder(client, email). The store refuses a second
\* folder of the same name in the base folder.
LoginCreate(v, ok) ==
  /\ lpc[v] = "create"
  /\ IF ~ok \/ lreq[v].email \in Range(baseFolders)
     THEN /\ login' = [login EXCEPT ![v].kind = "raised"]
          /\ Raised(v)
          /\ UNCHANGED baseFolders
     ELSE /\ baseFolders' = Append(baseFolders, lreq[v].email)
          /\ lreq' = [lreq EXCEPT ![v].folder_id = IdStr(Len(baseFolders) + 1)]
          /\ lpc' = [lpc EXCEPT ![v] = "write"]
          /\ UNCHANGED login
  /\ UNCHANGED <<registry, loginNo, firstLogin>>
  /\ UNCHANGED <<splitVars, aggVars, anaVars, clipVars, boxVars, cacheVars>>

\* Lines 69-76: the row is appended to the frame read and update_users_csv
\* uploads the frame, as a new version of the file read or, when there was
\* none, as a new file, which the store refuses when the name is taken.
LoginWrite(v, ok) ==
  /\ lpc[v] = "write"
  /\ LET r == lreq[v]
         df == concat(r.df, r.username, r.email, r.folder_id)
     IN IF ~ok \/ (~r.file_id /\ registry.exists)
        THEN /\ login' = [login EXCEPT ![v].kind = "raised"]
             /\ UNCHANGED <<registry, firstLogin>>
        ELSE /\ registry' = [exists |-> TRUE, rows |-> to_csv(df)]
             /\ login' = [login EXCEPT ![v].kind = "returned",
                                       ![v].folder_id = r.folder_id,
                                       ![v].is_new = TRUE]
             /\ Returns(r.email, r.folder_id)
  /\ Raised(v)
  /\ UNCHANGED <<baseFolders, loginNo>>
  /\ UNCHANGED <<splitVars, aggVars, anaVars, clipVars, boxVars, cacheVars>>

\* One visitor at a time: a call starts when no other is running.
LoginReadSeq(v, username, email, fail) ==
  /\ \A w \in Visitors : lpc[w] = "idle"
  /\ LoginRead(v, username, email, fail)

NextLoginSeq ==
  \E v \in Visitors :
    \/ \E username \in Usernames, email \in Emails, fail \in {"none", "list", "download"} :
         LoginReadSeq(v, username, email, fail)
    \/ \E ok \in BOOLEAN : LoginCreate(v, ok)
    \/ \E ok \in BOOLEAN : LoginWrite(v, ok)

\* Visitors logging in at the same time, the store answering every call it
\* can answer.
NextLoginConc ==
  \E v \in Visitors :
    \/ \E username \in Usernames, email \in Emails : LoginRead(v, username, email, "none")
    \/ LoginCreate(v, TRUE)
    \/ LoginWrite(v, TRUE)

\* ------------------------------------- Report tab: the cached AI text
\* st.radio(..., options=tasks, index=None): no task, or one of the tasks
ReportTasks ==
  {"Rainbow passage", "Conversational speech",
   "Sustained 'aaah' at minimum volume", "Maximum loudness level (brief 'AAAH')"}
RadioValues == {"None"} \cup ReportTasks

\* The keys set at lines 131-138; "none" is Python's None (and the empty
\* text, falsy like it).
NoState == [prev_task_report |-> "None", report_ai_text |-> "none",
            report_ai_task |-> "None", text_for |-> "None"]

NoPage == [selected |-> "None", buttons |-> FALSE, kind |-> "none",
           ai_shown |-> "none", cleared |-> FALSE]

CacheIdle == session_state = NoState /\ reportPage = NoPage

\* Lines 140-145 with the stored text left as it is.
reset_keeps_text(state, selected_task) ==
  IF selected_task # state.prev_task_report
  THEN [state EXCEPT !.prev_task_report = selected_task,
                     !.report_ai_task = selected_task]
  ELSE state

\* Lines 140-145: the task changed, the stored text is cleared and the
\* script rerun (with the same selection and no button clicked).
reset_on_change(state, selected_task) ==
  IF selected_task # state.prev_task_report
  THEN [state EXCEPT !.prev_task_report = selected_task,
                     !.report_ai_text = "none",
                     !.report_ai_task = selected_task,
                     !.text_for = "None"]
  ELSE state

\* What the Gemini call leaves in report_ai_text: resp.text may be empty.
CacheText(gem) == IF gem = "empty" THEN "none" ELSE AiStep(gem).text

\* One run of report_tab. selected_task is the radio's value, button the
\* button clicked ("none": a rerun for another reason), look what the
\* lookup of the task folder gives, fetch what fetch_all_features gives,
\* gem what init_gemini and the Gemini call do.
ReportRun(selected_task, button, look, fetch, gem) ==
  /\ (button # "none" =>
        selected_task = reportPage.selected /\ reportPage.buttons)
  /\ (selected_task = "None" => look = "found" /\ button = "none")
  /\ (look # "found" \/ button = "none" => fetch = "table")
  /\ (button # "ai" \/ fetch # "table" => gem = "ok")
  /\ LET state == reset_on_change(session_state, selected_task)
         base == [NoPage EXCEPT
                    !.selected = selected_task,
                    !.cleared = (state # session_state
                                   /\ session_state.report_ai_text # "none")]
         drawn == [base EXCEPT !.buttons = TRUE]
     IN IF selected_task = "None"
        THEN /\ session_state' = state
             /\ reportPage' = [base EXCEPT !.kind = "select_a_task"]
        ELSE IF look # "found"
        THEN /\ session_state' = state
             /\ reportPage' = [base EXCEPT !.kind = look]
        ELSE IF button = "none" \/ state # session_state
        THEN /\ session_state' = state
             /\ reportPage' =
                  IF state.report_ai_text # "none"
                       /\ state.report_ai_task = selected_task
                  THEN [drawn EXCEPT !.kind = "previous_run",
                                     !.ai_shown = state.report_ai_text]
                  ELSE [drawn EXCEPT !.kind = "buttons"]
        ELSE IF fetch # "table"
        THEN /\ session_state' = state
             /\ reportPage' = [drawn EXCEPT !.kind = fetch]
        ELSE IF button = "report"
        THEN /\ session_state' = state
             /\ reportPage' = [drawn EXCEPT !.kind = "table"]
        ELSE /\ session_state' =
                  [state EXCEPT
                     !.report_ai_text = CacheText(gem),
                     !.text_for = IF CacheText(gem) = "none" THEN "None"
                                  ELSE selected_task,
                     !.report_ai_task = IF gem = "err" THEN @ ELSE selected_task]
             /\ reportPage' = [drawn EXCEPT !.kind = "table_and_ai",
                                            !.ai_shown = CacheText(gem)]
  /\ UNCHANGED <<splitVars, aggVars, anaVars, clipVars, loginVars, boxVars>>

NextCache ==
  \E selected_task \in RadioValues, button \in {"none", "report", "ai"} :
    \E look \in {"found", "no_access", "no_sessions"},
       fetch \in {"table", "raised", "no_features"},
       gem \in {"err", "ok", "raises", "empty"} :
      ReportRun(selected_task, button, look, fetch, gem)

\* ------------------------------------------------- the user's folder
\* The id of the logged-in user's folder; the folders and files created
\* under it are numbered from it.
UserFolder == 0

Pids == {<<"P1">>}

\* The dates typed into the tabs' date fields.
BoxDates == {<<"2025-01-01">>}

\* The names given to ensure_task_folder.
FolderNames == Pids \cup BoxDates \cup TASKS

NextId(entries) == Cardinality(entries) + 1

Folders(entries) == {e \in entries : e.type = "folder"}

\* get_folder_items(parent).entries
Items(entries, parent) == {e \in entries : e.parent = parent}

\* next(...): the first entry of the listing, the store listing by id
First(S) == CHOOSE e \in S : \A f \in S : e.id <= f.id

\* ensure_task_folder with the folder created whether or not it is there.
ensure_task_folder_create(entries, parent, name, create_if_missing) ==
  [box |-> entries \cup {[parent |-> parent, name |-> name, type |-> "folder",
                          id |-> NextId(entries)]},
   ret |-> IdStr(NextId(entries))]

ensure_task_folder(entries, parent, name, create_if_missing) ==
  LET found == {i \in Items(entries, parent) : i.type = "folder" /\ i.name = name}
  IN IF found # {} THEN [box |-> entries, ret |-> IdStr(First(found).id)]
     ELSE IF create_if_missing
     THEN [box |-> entries \cup {[parent |-> parent, name |-> name, type |-> "folder",
                                  id |-> NextId(entries)]},
           ret |-> IdStr(NextId(entries))]
     ELSE [box |-> entries, ret |-> NoId]

\* upload_to_user_box, accepted by the store
BoxPut(entries, parent, name) ==
  IF \E e \in Items(entries, parent) : e.type = "file" /\ e.name = name
  THEN entries
  ELSE entries \cup {[parent |-> parent, name |-> name, type |-> "file",
                      id |-> NextId(entries)]}

\* selected_task.replace("/", "-").replace(":", "-") on a task's text
safe_task_name(task) ==
  IF task = <<"Reading / counting">> THEN <<"Reading - counting">>
  ELSE IF task = <<"Task: vowels">> THEN <<"Task- vowels">>
  ELSE task

\* audio_saver_tab: the folder the segment is uploaded to (lines 47-50) and
\* the name it is uploaded under (lines 99-100)
SaverFolders(pid, date, task) == <<pid, date>>
SaverFileName(pid, date, task) == WavName(pid, safe_task_name(task))

\* split_audio_report_tab: the folder the segment is looked up in (lines
\* 131-132) and the name looked up (line 133)
ReportFolders(pid, date, task) == <<pid, task>>
ReportFileName(pid, date, task) == WavName(date, task)

\* The two ensure_task_folder calls of a tab, from the user's folder down.
EnsurePath(entries, names) ==
  LET first == ensure_task_folder(entries, UserFolder, names[1], TRUE)
  IN ensure_task_folder(first.box, first.ret.n, names[2], TRUE)

NoBoxCall == [fn |-> "none", parent |-> UserFolder, name |-> <<>>, create |-> FALSE,
              pid |-> <<>>, date |-> <<>>, task |-> <<>>,
              before |-> {}, ret |-> NoId, raised |-> FALSE,
              answered |-> TRUE, loaded |-> FALSE]

BoxIdle == box = {} /\ saved = {} /\ boxCall = NoBoxCall

\* One call of ensure_task_folder on the user's folder or a folder under it.
\* fail is the store call that raises: the listing, or the creation of the
\* folder when the call comes to it.
EnsureTaskFolder(parent, name, create_if_missing, fail) ==
  /\ parent \in {UserFolder} \cup {e.id : e \in Folders(box)}
  /\ LET r == ensure_task_folder(box, parent, name, create_if_missing)
         call == [NoBoxCall EXCEPT !.fn = "ensure_task_folder",
                    !.parent = parent, !.name = name,
                    !.create = create_if_missing, !.before = box]
     IN /\ Cardinality(r.box) <= MaxEntries
        /\ (fail = "create" => r.box # box)
        /\ IF fail # "none"
           THEN /\ box' = box
                /\ boxCall' = [call EXCEPT !.raised = TRUE, !.answered = FALSE]
           ELSE /\ box' = r.box
                /\ boxCall' = [call EXCEPT !.ret = r.ret]
  /\ UNCHANGED saved
  /\ UNCHANGED <<splitVars, aggVars, anaVars, clipVars, loginVars, cacheVars>>

\* audio_saver_tab with a region selected, a task ticked and "Save Segment to
\* Box" clicked; ok: the store accepts the upload (the upload raising ends
\* the script with the folders made).
SaveSegment(pid, date, task, ok) ==
  /\ LET r == EnsurePath(box, SaverFolders(pid, date, task))
         after == IF ok THEN BoxPut(r.box, r.ret.n, SaverFileName(pid, date, task))
                  ELSE r.box
     IN /\ Cardinality(after) <= MaxEntries
        /\ box' = after
        /\ boxCall' = [NoBoxCall EXCEPT !.fn = "audio_saver_tab", !.pid = pid,
                         !.date = date, !.task = task, !.before = box, !.ret = r.ret,
                         !.answered = ok]
  /\ saved' = IF ok THEN saved \cup {<<pid, date, task>>} ELSE saved
  /\ UNCHANGED <<splitVars, aggVars, anaVars, clipVars, loginVars, cacheVars>>

\* split_audio_report_tab, lines 130-141: the PID and task folders ensured,
\* the segment fetched; fetchOk: the store answers the listing and the
\* download of fetch_file_from_box.
LoadSegment(pid, date, task, fetchOk) ==
  /\ LET r == EnsurePath(box, ReportFolders(pid, date, task))
     IN /\ Cardinality(r.box) <= MaxEntries
        /\ box' = r.box
        /\ boxCall' = [NoBoxCall EXCEPT !.fn = "split_audio_report_tab", !.pid = pid,
                         !.date = date, !.task = task, !.before = box, !.ret = r.ret,
                         !.answered = fetchOk,
                         !.loaded =
                           /\ fetchOk
                           /\ \E e \in Items(r.box, r.ret.n) :
                                e.name = ReportFileName(pid, date, task)]
  /\ UNCHANGED saved
  /\ UNCHANGED <<splitVars, aggVars, anaVars, clipVars, loginVars, cacheVars>>

NextBox ==
  \/ \E parent \in 0..MaxEntries, name \in FolderNames, c \in BOOLEAN :
       \E fail \in {"none", "list", "create"} : EnsureTaskFolder(parent, name, c, fail)
  \/ \E pid \in Pids, date \in BoxDates, task \in TASKS, ok \in BOOLEAN :
       SaveSegment(pid, date, task, ok)
  \/ \E pid \in Pids, date \in BoxDates, task \in TASKS, f \in BOOLEAN :
       LoadSegment(pid, date, task, f)

\* ----------------------------------------------------- one clip, alone
\* A WAV file: its channel count and its frames, each frame one sample per
\* channel. Samples are floats, kept as fractions; the values here and their
\* means are exact in float32, so astype(np.float32) leaves them as they are.
Samples == {Frac(-1, 1), Frac(1, 1)}

Wavs ==
  UNION {{[channels |-> c, frames |-> d] : d \in BoundedSeq([1..c -> Samples], MaxSamples)}
           : c \in {1, 2}}

NoWav == [channels |-> 0, frames |-> <<>>]

NoArray == [ndim |-> 0, data |-> <<>>]

\* sf.read(file, always_2d=False): a one-dimensional array for one channel
\* (kept as frames of one sample), an array of shape (frames, channels) else
sf_read(wav) == [ndim |-> IF wav.channels = 1 THEN 1 ELSE 2, data |-> wav.frames]

\* np.mean(y, axis=1) of one row; the samples of a file have denominator 1
RowMean(row) == Frac(Sum([j \in 1..Len(row) |-> row[j].num]), Len(row))

\* The first channel in the place of the mean of the channels.
ensure_mono_first(y) ==
  IF y.ndim = 1 THEN y
  ELSE [ndim |-> 1, data |-> [i \in 1..Len(y.data) |-> <<y.data[i][1]>>]]

ensure_mono(y) ==
  IF y.ndim = 1 THEN y
  ELSE [ndim |-> 1, data |-> [i \in 1..Len(y.data) |-> <<RowMean(y.data[i])>>]]

read_audio_bytes(raw) == ensure_mono(sf_read(raw))

\* split_audio_report_tab, lines 148 and 157: the array sf.read returns is
\* the array pm.Sound is built from.
split_sound_values(raw) == sf_read(raw)

NoCalc == [fn |-> "none", clip |-> NoClip, audio |-> NoWav,
           value |-> None, rows |-> <<>>, y |-> NoArray]

Tabs == {"upload", "record", "audio_saver"}

NoPreview == [tab |-> "none", kind |-> "none"]

ClipIdle == calc = NoCalc /\ temps = 0 /\ preview = NoPreview

SideIdle == ClipIdle /\ LoginIdle /\ BoxIdle /\ CacheIdle

\* One function applied to the clip.
Apply(result) ==
  /\ calc.fn = "none"
  /\ calc' = result
  /\ UNCHANGED <<temps, preview>>
  /\ UNCHANGED <<splitVars, aggVars, anaVars, loginVars, boxVars, cacheVars>>

EstimateF0 ==
  /\ calc.clip # NoClip
  /\ Apply([calc EXCEPT !.fn = "estimate_f0_praat",
                        !.value = estimate_f0_praat(calc.clip.pitch)])

EstimateF0Split ==
  /\ calc.clip # NoClip
  /\ Apply([calc EXCEPT !.fn = "estimate_f0_praat_split",
                        !.value = estimate_f0_praat_split(calc.clip.pitch)])

ComputeCpp ==
  /\ calc.clip # NoClip
  /\ Apply([calc EXCEPT !.fn = "compute_cpp", !.value = compute_cpp(calc.clip)])

SummarizeFeatures ==
  /\ calc.clip # NoClip
  /\ Apply([calc EXCEPT !.fn = "summarize_features",
                        !.rows = summarize_features(calc.clip)])

SummarizeFeaturesSplit ==
  /\ calc.clip # NoClip
  /\ Apply([calc EXCEPT !.fn = "summarize_features_split",
                        !.rows = summarize_features_split(calc.clip)])

ReadAudioBytes ==
  /\ calc.audio # NoWav
  /\ Apply([calc EXCEPT !.fn = "read_audio_bytes", !.y = read_audio_bytes(calc.audio)])

SplitRead ==
  /\ calc.audio # NoWav
  /\ Apply([calc EXCEPT !.fn = "split_audio_report_tab",
                        !.y = split_sound_values(calc.audio)])

\* The waveform preview of the Upload, Record and Audio Saver tabs, run on
\* every rerun of the script with a clip loaded: save_temp_mono_wav creates
\* the file and writes it, audix shows it, os.unlink removes it. A write or
\* a widget that raises ends the script there; an unlink that raises is
\* passed over.
Preview(tab, written, shown, removed) ==
  /\ calc.audio # NoWav
  /\ temps < MaxTemps
  /\ preview' = [tab |-> tab,
                 kind |-> IF ~written THEN "write_raised"
                          ELSE IF ~shown THEN "audix_raised" ELSE "shown"]
  /\ temps' = IF written /\ shown /\ removed THEN temps ELSE temps + 1
  /\ UNCHANGED calc
  /\ UNCHANGED <<splitVars, aggVars, anaVars, loginVars, boxVars, cacheVars>>

InitClip ==
  /\ SplitIdle
  /\ AggIdle
  /\ AnaIdle
  /\ trendPath = 3
  /\ LoginIdle
  /\ BoxIdle
  /\ CacheIdle
  /\ temps = 0
  /\ preview = NoPreview
  /\ \/ \E c \in SignalClips : calc = [NoCalc EXCEPT !.clip = c]
     \/ \E w \in Wavs : calc = [NoCalc EXCEPT !.audio = w]

NextClip ==
  \/ EstimateF0
  \/ EstimateF0Split
  \/ ComputeCpp
  \/ SummarizeFeatures
  \/ SummarizeFeaturesSplit
  \/ ReadAudioBytes
  \/ SplitRead
  \/ \E tab \in Tabs, written \in BOOLEAN :
       \E shown \in (IF written THEN BOOLEAN ELSE {FALSE}) :
         \E removed \in (IF shown THEN BOOLEAN ELSE {FALSE}) :
           Preview(tab, written, shown, removed)

\* ---------------------------------------------------------- specifications
InitSplit == SplitIdle /\ AggIdle /\ AnaIdle /\ SideIdle /\ trendPath = 3

InitLogin ==
  /\ SplitIdle /\ AggIdle /\ AnaIdle /\ trendPath = 3
  /\ ClipIdle /\ BoxIdle /\ CacheIdle /\ LoginIdle

InitAgg == SplitIdle /\ AggIdle /\ AnaIdle /\ SideIdle /\ trendPath \in 0..3

InitSummary ==
  /\ SplitIdle
  /\ AnaIdle
  /\ SideIdle
  /\ trendPath = 3
  /\ taskFiles = <<>>
  /\ sessions = <<>>
  /\ repeated = FALSE
  /\ \E df \in BoundedSeq(DfRows, MaxDfRows) : lastRun = [NoRun EXCEPT !.df = df]

NextAgg ==
  \/ \E i \in 1..Len(TrendNames) :
       \E c \in {Garbage} \cup {Csv(r) : r \in BoundedSeq(CsvRows, MaxStoredRows - StoredRows)} :
         StoreTrendFile(TrendNames[i], c)
  \/ \E loc \in 0..3 :
       \E l \in (IF loc = 0 THEN BOOLEAN ELSE {TRUE}) :
         \E failing \in (IF loc = 0 /\ l
                         THEN SUBSET Range(feature_files(Listing(TrendNames, taskFiles)))
                         ELSE {{}}) :
           TrendRequest(loc, l, failing)
  \/ \E i \in 1..Len(ReportNames), audio \in BOOLEAN :
       \E c \in {NoFile, Garbage}
                  \cup {Csv(r) : r \in BoundedSeq(CsvRows, MaxStoredRows - StoredRows)} :
         StoreSession(ReportNames[i], audio, c)
  \/ \E b \in {"report", "ai"}, fail \in ReportCalls(sessions) :
       \E gem \in (IF b = "ai" THEN {"err", "ok", "raises"} ELSE {"ok"}) :
         \E p \in SortedOrders(Coerce(fetch_all_features(sessions, fail).df)) :
           ReportRequest(b, fail, gem, p)

NextSummary == \E p \in SortedOrders(lastRun.df) : Summarize(p)

\* The three analysis paths, one tab in use at a time.
NextAnalyse ==
  \/ \E tab \in {"upload", "record"}, clip \in Clips, save_auto \in BOOLEAN :
       \E ai \in (IF tab = "record" /\ Voiced(clip.pitch)
                  THEN {"off", "err", "ok", "raises"} ELSE {"off"}) :
         \E done \in (IF save_auto /\ Voiced(clip.pitch) THEN 0..SaveCalls ELSE {0}) :
           \E name \in (IF save_auto /\ Voiced(clip.pitch)
                        THEN Range(ReportNames) ELSE {ReportNames[1]}) :
             /\ reqNo = 0
             /\ Analyse(tab, clip, save_auto, ai, "Unknown / show both", done, name)
  \/ AnaIdle /\ NextSplitSeq

\* The clips reviewed: their jitter, shimmer and CPP computed.
ReviewClips == {c \in Clips : c.js = "values" /\ c.cpp = "value"}

\* The AI review with the store answering every call: "Analyse Report with
\* AI" over a store of saved sessions, and the analyse buttons of the Upload
\* and Record tabs with "Save the analysis automatically" off.
NextAI ==
  \/ \E i \in 1..Len(ReportNames), audio \in BOOLEAN :
       \E c \in {NoFile, Garbage}
                  \cup {Csv(r) : r \in BoundedSeq(CsvRows, MaxStoredRows - StoredRows)} :
         StoreSession(ReportNames[i], audio, c)
  \/ \E gem \in {"err", "ok", "raises"} :
       \E p \in SortedOrders(Coerce(fetch_all_features(sessions, <<"none">>).df)) :
         ReportRequest("ai", <<"none">>, gem, p)
  \/ \E tab \in {"upload", "record"}, clip \in ReviewClips :
       \E ai \in (IF tab = "record" /\ Voiced(clip.pitch)
                  THEN {"off", "err", "ok", "raises"} ELSE {"off"}) :
         \E group \in (IF ai \in {"ok", "raises"}
                       THEN ReferenceGroups ELSE {"Unknown / show both"}) :
           Analyse(tab, clip, FALSE, ai, group, 0, ReportNames[1])

\* Extraction requests of one operator over the three session dates, the
\* segments loading and analysing, and the trend tab opened between them.
InitSplitTrend ==
  /\ SplitStart(Range(SessionDates))
  /\ AggIdle
  /\ AnaIdle
  /\ SideIdle
  /\ trendPath = 3

NextSplitTrend ==
  \/ \E d \in Range(SessionDates), a \in {"voiced", "unvoiced"} :
       ClickSeq("opA", d, TrendTask, TRUE, a)
  \/ \E l \in BOOLEAN : Check("opA", l)
  \/ \E k \in BOOLEAN : Upload("opA", k)
  \/ TrendOfReports

SpecSplitSeq == InitSplit /\ [][NextSplitSeq]_vars

SpecSplitConc == InitSplit /\ [][NextSplitConc]_vars

SpecAgg == InitAgg /\ [][NextAgg]_vars

SpecSummary == InitSummary /\ [][NextSummary]_vars

SpecAnalyse == InitSplit /\ [][NextAnalyse]_vars

SpecClip == InitClip /\ [][NextClip]_vars

SpecSplitTrend == InitSplitTrend /\ [][NextSplitTrend]_vars

SpecLoginConc == InitLogin /\ [][NextLoginConc]_vars

SpecBox == InitSplit /\ [][NextBox]_vars

SpecCache == InitSplit /\ [][NextCache]_vars

SpecAI == InitSplit /\ [][NextAI]_vars

SpecLoginSeq == InitLogin /\ [][NextLoginSeq]_vars

\* ------------------------------------------- claims: Split Audio Report
UploadsOf(n) == {u \in uploadLog : u[2] = n}

UploadsNamed(name) == {u \in uploadLog : u[1] = name}

Ended(o) == pc[o] = "idle" /\ outcome[o] \notin {"none", "load_failed"}

WarnsAlreadyExists(o) ==
  /\ MsgAlreadyExists \in msgs[o]
  /\ \A m \in msgs[o] : m.level # "error"

SameKey(o, p) == req[o].date = req[p].date /\ req[o].task = req[p].task

\* C2: the duplicate check and the uploads are separate steps with no lock
\* between them: when two concurrent requests for the same (date, task) both
\* saw none of the expected names and both ran to the end, each of the four
\* output names was uploaded by the one and by the other.
C2_BothUpload ==
  \A o, p \in Ops :
    (o # p /\ SameKey(o, p) /\ saw[o] = "clear" /\ saw[p] = "clear"
       /\ outcome[o] = "saved" /\ outcome[p] = "saved") =>
      \A name \in expected_names(req[o].date, req[o].task) :
        /\ <<name, req[o].n, TRUE>> \in uploadLog
        /\ <<name, req[p].n, TRUE>> \in uploadLog

C2_Witness ==
  \E o, p \in Ops :
    /\ o # p /\ SameKey(o, p)
    /\ saw[o] = "clear" /\ saw[p] = "clear"
    /\ outcome[o] = "saved" /\ outcome[p] = "saved"
    /\ Cardinality(UploadsNamed(OutputName(req[o].date, req[o].task, 1))) = 2

C28_FailedCheckUploads ==
  \A o \in Ops :
    saw[o] = "failed" =>
      /\ MsgCannotVerify \in msgs[o]
      /\ MsgAlreadyExists \notin msgs[o]
      /\ outcome[o] \in {"running", "saved", "failed"}
      /\ (pc[o] = "idle") = (outcome[o] # "running")
      /\ (outcome[o] = "running" => pc[o] = "upload")
      /\ \A i \in 1..Len(ExpectedSuffixes) :
           (i < req[o].next) <=>
             <<OutputName(req[o].date, req[o].task, i), req[o].n, FALSE>> \in uploadLog
      /\ (outcome[o] = "saved" => req[o].next = Len(ExpectedSuffixes) + 1)
      /\ (outcome[o] = "failed" => MsgExtractError \in msgs[o])

\* A request that began with a report in the folder, whose check could not
\* list it, uploaded all four outputs.
C28_Witness ==
  \E o \in Ops :
    /\ saw[o] = "failed" /\ pre[o]
    /\ outcome[o] = "saved"
    /\ MsgCannotVerify \in msgs[o]
    /\ Cardinality(UploadsOf(req[o].n)) = Len(ExpectedSuffixes)

\* --------------------------------------------- claims: trend aggregation
Aggregated == lastRun.tab \in {"trend", "report"}

ShowsTable == lastRun.kind \in {"table", "table_then_raised"}

\* The value the table shows for a feature and a session; NaN where it has
\* no such cell.
CellOf(table, f, s) ==
  IF <<f, s>> \in DOMAIN table.cell THEN table.cell[<<f, s>>] ELSE NaN

FirstRowValue(df, f, s) == df[Min(RowsOf(df, f, s))].Value

\* C4, as stated: whenever an aggregation of either tab has concatenated rows,
\* it shows a table, and each cell for which there are rows holds the value of
\* the first row of its (feature, session) pair.
C4_AsStated ==
  (Aggregated /\ lastRun.df # <<>>) =>
    /\ ShowsTable
    /\ \A f \in Index(lastRun.df), s \in Columns(lastRun.df) :
         RowsOf(lastRun.df, f, s) # {} =>
           CellOf(lastRun.table, f, s) = FirstRowValue(lastRun.df, f, s)

OnlyDownloadsFail == \A c \in lastRun.fails : c[1] = "download"

TrendReadable ==
  {n \in Range(feature_files(Listing(TrendNames, taskFiles))) :
     taskFiles[n].kind = "csv" /\ <<"download", n>> \notin lastRun.fails}

ReportReadable ==
  {n \in Range(session_folders(Listing(ReportNames, sessions))) :
     sessions[n].kind = "csv" /\ <<"download", n>> \notin lastRun.fails}

\* C5, as stated: an aggregation in which only downloads or parses of feature
\* CSVs fail, and in which at least one feature CSV with rows is downloaded and
\* parsed, shows a table built from the rows of exactly the files that could
\* be read (the Trend frame free of duplicate pairs).
C5_AsStated ==
  /\ (/\ lastRun.tab = "trend"
      /\ OnlyDownloadsFail
      /\ \E n \in TrendReadable : taskFiles[n].rows # <<>>
      /\ ~HasDuplicates(lastRun.df))
       => /\ ShowsTable
          /\ lastRun.skipped = Range(lastRun.listed) \ TrendReadable
          /\ Columns(lastRun.df) = {SplitFirst(n) : n \in {m \in TrendReadable : taskFiles[m].rows # <<>>}}
  /\ (/\ lastRun.tab = "report"
      /\ OnlyDownloadsFail
      /\ \E n \in ReportReadable : sessions[n].rows # <<>>)
       => /\ ShowsTable
          /\ Columns(lastRun.df) = {n \in ReportReadable : sessions[n].rows # <<>>}

Summarised == lastRun.tab = "report" /\ ShowsTable /\ lastRun.ai \in {"response", "gemini_failed"}

\* The numeric values in a feature's row of a pivot.
RowValues(table, f) ==
  {table.cell[<<f, s>>].v : s \in {t \in table.columns : IsNum(table.cell[<<f, t>>])}}

NonMissing(table, f) == {s \in table.columns : IsNum(table.cell[<<f, s>>])}

\* C8, as stated: in a Report request that computes the summary, the features
\* summarised are the rows of the pivot of the same request; a feature's count
\* is the number of non-missing cells of its row, and its first, last, min and
\* max occur in that row.
C8_AsStated ==
  Summarised =>
    /\ {r.Feature : r \in lastRun.summary} = lastRun.table.index
    /\ \A r \in lastRun.summary :
         r.Feature \in lastRun.table.index =>
           /\ r.count = Cardinality(NonMissing(lastRun.table, r.Feature))
           /\ {r.first, r.last, r.min, r.max} \subseteq RowValues(lastRun.table, r.Feature)

StoreUnchanged == taskFiles' = taskFiles /\ sessions' = sessions

NumericRows(df, f) ==
  {i \in 1..Len(df) : df[i].Feature = f /\ IsNum(to_numeric(df[i].Value))}

\* sum((x_i - x_j)^2) over the pairs P of rows
RECURSIVE PairwiseSq(_, _)
PairwiseSq(df, P) ==
  IF P = {} THEN 0
  ELSE LET q == CHOOSE q \in P : TRUE
           d == df[q[1]].Value.v - df[q[2]].Value.v
       IN d * d + PairwiseSq(df, P \ {q})

Pairs(N) == {q \in N \X N : q[1] < q[2]}

\* C6: in every row of the summary change is last - first; std is defined, is
\* 0 for a feature with one numeric value, and for n >= 2 values its square is
\* the sample variance, sum((x_i - x_j)^2 over pairs) / (n (n - 1)).
C6_ChangeAndStd ==
  lastRun.tab = "summary" =>
    \A r \in lastRun.summary :
      LET N == NumericRows(lastRun.df, r.Feature)
          n == Cardinality(N)
      IN /\ r.change = r.last - r.first
         /\ r.std.den > 0
         /\ (n = 1 => r.std.num = 0)
         /\ (n >= 2 => r.std.num * n * (n - 1) = PairwiseSq(lastRun.df, Pairs(N)) * r.std.den)

\* A summary with a feature of one value and a feature of two different values.
C6_Witness ==
  /\ lastRun.tab = "summary"
  /\ \E r \in lastRun.summary : r.count = 1 /\ r.std = Zero
  /\ \E r \in lastRun.summary : r.count = 2 /\ r.std.num > 0 /\ r.change # 0

IsExample(df, N) ==
  \E i, j \in N :
    /\ N = {i, j}
    /\ df[i].session = <<"2025-01-01">> /\ df[i].Value = Num(150)
    /\ df[j].session = <<"2025-02-01">> /\ df[j].Value = Num(160)

\* std, given as its square, rounds to 7.071
Is7071(sq) ==
  /\ 14141 * 14141 * sq.den <= 4000000 * sq.num
  /\ 4000000 * sq.num < 14143 * 14143 * sq.den

\* C7: the summary has a row for each feature with a numeric value; first is
\* the value of a row with the smallest session label among the feature's
\* numeric rows, last of one with the largest; both lie between min and max;
\* and sessions 2025-01-01 with 150 and 2025-02-01 with 160 give count 2,
\* first 150, last 160, change 10, mean 155, std 7.071, min 150, max 160.
C7_FirstLastBySession ==
  lastRun.tab = "summary" =>
    /\ {r.Feature : r \in lastRun.summary}
         = {f \in FeatureNames : NumericRows(lastRun.df, f) # {}}
    /\ \A r \in lastRun.summary :
         LET df == lastRun.df
             N == NumericRows(df, r.Feature)
         IN /\ \E i \in N : /\ \A j \in N : ~LexLess(df[j].session, df[i].session)
                            /\ r.first = df[i].Value.v
            /\ \E i \in N : /\ \A j \in N : ~LexLess(df[i].session, df[j].session)
                            /\ r.last = df[i].Value.v
            /\ r.min <= r.first /\ r.first <= r.max
            /\ r.min <= r.last /\ r.last <= r.max
            /\ IsExample(df, N) =>
                 /\ r.count = 2 /\ r.first = 150 /\ r.last = 160 /\ r.change = 10
                 /\ r.mean.num = 155 * r.mean.den
                 /\ Is7071(r.std)
                 /\ r.min = 150 /\ r.max = 160

\* The example's two sessions, the later one first in the frame.
C7_Witness ==
  /\ lastRun.tab = "summary"
  /\ \E r \in lastRun.summary :
       /\ IsExample(lastRun.df, NumericRows(lastRun.df, r.Feature))
       /\ \E i, j \in NumericRows(lastRun.df, r.Feature) :
            i < j /\ LexLess(lastRun.df[j].session, lastRun.df[i].session)
       /\ r.first = 150 /\ r.last = 160

\* ----------------------------------------------- claims: unvoiced clips
\* The request of the Split Audio Report tab ended at line 164, its clip
\* without a voiced frame.
SplitUnvoiced(o) == outcome[o] = "no_f0"

\* The request went on past summarize_features (line 167) to the duplicate
\* check.
SplitRecordShown(o) == saw[o] # "none"

HasValue(rows, f, v) == \E i \in 1..Len(rows) : rows[i].Feature = f /\ rows[i].Value = v

\* C10, as stated: an analysis of a clip without a voiced frame produces a
\* feature record whose Fundamental Freq is the placeholder, whose jitter and
\* shimmer are no numbers and whose duration is the clip's, in the Upload,
\* Record and Split Audio Report tabs.
C10_AsStated ==
  /\ (analysed.tab \in {"upload", "record"} /\ ~Voiced(analysed.clip.pitch)) =>
       /\ HasValue(analysed.features, "Fundamental Freq (Hz)", Placeholder)
       /\ HasValue(analysed.features, "Audio duration",
                   Format2(Frac(analysed.clip.duration, 1)))
       /\ \A i \in 1..Len(analysed.features) :
            analysed.features[i].Feature \in {"Jitter/Shimmer", "Jitter (local, %)"}
              => ~IsNum(analysed.features[i].Value)
  /\ \A o \in Ops : SplitUnvoiced(o) => SplitRecordShown(o)

\* --------------------------------------------- claims: feature records
\* The feature names of analysis_utils.summarize_features: the keys it
\* assigns a computed value to.
FeatureVocabulary ==
  {"Fundamental Freq (Hz)", "Audio duration", "Jitter (local, %)",
   "Pitch Mean (Hz)", "Pitch Min (Hz)", "Pitch Max (Hz)", "Pitch Range (Hz)",
   "Energy Mean (dB)", "Energy Min (dB)", "Energy Max (dB)", "Energy Range (dB)",
   "CPP (dB)"}

\* The keys of split_audio_report_mode.summarize_features.
SplitVocabulary ==
  {"Pitch mean (Hz)", "Pitch std (Hz)", "Pitch min (Hz)", "Pitch max (Hz)",
   "Intensity mean (dB)", "Intensity std (dB)", "Duration (s)"}

IsComputedNumber(c) == c.k \in {"num", "float"}

IsPlaceholder(c) == c.k = "str"

\* The statistics of the clip that are undefined or fail to compute.
UndefinedIn(clip) ==
  (IF Voiced(clip.pitch) THEN {}
   ELSE {"Fundamental Freq (Hz)", "Pitch Mean (Hz)", "Pitch Min (Hz)", "Pitch Max (Hz)",
         "Pitch Range (Hz)", "Pitch mean (Hz)", "Pitch std (Hz)", "Pitch min (Hz)",
         "Pitch max (Hz)"})
    \cup (IF clip.js = "values" THEN {} ELSE {"Jitter (local, %)"})
    \cup (IF clip.cpp = "value" THEN {} ELSE {"CPP (dB)"})
    \cup (IF clip.inten # <<>> THEN {}
          ELSE {"Energy Mean (dB)", "Energy Min (dB)", "Energy Max (dB)",
                "Energy Range (dB)", "Intensity mean (dB)", "Intensity std (dB)"})

\* C11, as stated: every value of the record that summarize_features returns
\* (analysis_utils and Split Audio Report) is a computed number or the
\* placeholder text and is stored under a name of the vocabulary, and a
\* statistic that is undefined or failed to compute is stored as the
\* placeholder or left out.
C11_AsStated ==
  calc.fn \in {"summarize_features", "summarize_features_split"} =>
    \A i \in 1..Len(calc.rows) :
      LET row == calc.rows[i]
      IN /\ IsComputedNumber(row.Value) \/ IsPlaceholder(row.Value)
         /\ row.Feature \in (IF calc.fn = "summarize_features"
                             THEN FeatureVocabulary ELSE SplitVocabulary)
         /\ row.Feature \in UndefinedIn(calc.clip) => IsPlaceholder(row.Value)

\* The feature record of the same clip with the cepstral routine succeeding.
WithCpp(clip) == summarize_features([clip EXCEPT !.cpp = "value"])

\* C12: when the cepstral routine raises, compute_cpp returns None, and
\* summarize_features returns the record it returns when the routine
\* succeeds, with the placeholder in the place of the CPP value.
C12_CppFailureIsMissing ==
  /\ (calc.fn = "compute_cpp" /\ calc.clip.cpp = "raises") => calc.value.k = "none"
  /\ (calc.fn = "summarize_features" /\ calc.clip.cpp = "raises") =>
       /\ Len(calc.rows) = Len(WithCpp(calc.clip))
       /\ \A i \in 1..Len(calc.rows) :
            /\ calc.rows[i].Feature = WithCpp(calc.clip)[i].Feature
            /\ IF calc.rows[i].Feature = "CPP (dB)"
               THEN calc.rows[i].Value = Placeholder
               ELSE calc.rows[i].Value = WithCpp(calc.clip)[i].Value
       /\ \E i \in 1..Len(calc.rows) : calc.rows[i].Feature = "CPP (dB)"

\* summarize_features has run on a voiced clip whose cepstral routine raised,
\* and the record has the pitch and energy rows and the CPP placeholder.
C12_Witness ==
  /\ calc.fn = "summarize_features"
  /\ calc.clip.cpp = "raises"
  /\ Voiced(calc.clip.pitch)
  /\ calc.clip.inten # <<>>
  /\ HasValue(calc.rows, "CPP (dB)", Placeholder)
  /\ HasValue(calc.rows, "Pitch Max (Hz)", Num(40000))
  /\ HasValue(calc.rows, "Energy Mean (dB)", Num(6100))

\* ------------------------------------------- claims: temporary files
\* C13, as stated: no temporary WAV file written for a waveform preview is
\* on disk once the preview's handling has ended, whether the widget
\* succeeded or raised, in the Upload, Record and Audio Saver tabs.
C13_AsStated == temps = 0

\* ------------------------------------------- claims: failures of calls
\* C14, as stated: a store call that fails during a save is caught at the
\* operation's boundary and surfaced as a message; the save does not end in
\* an exception that leaves the tab.
C14_AsStated == analysed.saved # "raised"

\* The AI response kept is an error text.
AiFailed(text) == text \in {"init_error", "gemini_failed"}

\* C15: when init_gemini returns an error or the Gemini call raises, the
\* error text is kept as the AI response and the run goes on to its end: the
\* Report tab has rendered the pivot table and ends without an exception,
\* the Record tab has rendered the extracted features and reaches its
\* closing message.
C15_AiFailureIsDisplayed ==
  /\ (lastRun.tab = "report" /\ AiFailed(lastRun.ai)) =>
       /\ lastRun.kind = "table"
       /\ lastRun.table = pivot_table(lastRun.df)
  /\ (analysed.tab = "record" /\ AiFailed(analysed.ai)) =>
       /\ analysed.features = summarize_features(analysed.clip)
       /\ analysed.shown = {MsgNotSaved}

\* "Analyse Report with AI" over two stored sessions, the Gemini call
\* raising: the table has a row and the error text is the response.
C15_Witness ==
  /\ lastRun.tab = "report"
  /\ lastRun.ai = "gemini_failed"
  /\ lastRun.kind = "table"
  /\ lastRun.table.index # {}
  /\ Cardinality(lastRun.table.columns) = 2

\* ----------------------------------------------- claims: AI prompts
\* C16, as stated: no prompt sent to the AI reviewer, by the Record tab or by
\* the Report tab, asks it to guess a protected attribute.
C16_AsStated ==
  /\ analysed.prompt.sent => analysed.prompt.guess = {}
  /\ lastRun.prompt.sent => lastRun.prompt.guess = {}

\* ------------------------------------------------------ claims: login
\* The registry file the call read has a row with the call's email.
Known(r) == \E i \in 1..Len(r.file.rows) : r.file.rows[i].email = r.email

FirstRowOf(rows, email) ==
  rows[CHOOSE i \in 1..Len(rows) :
         rows[i].email = email /\ \A j \in 1..(i - 1) : rows[j].email # email]

\* No call has started since.
Latest(r) == r.n = loginNo

\* C17: a call of handle_user_login that returns, its email in users.csv,
\* returns the id stored in the email's first row with is_new = False and
\* leaves the base folder and the registry as they were; its email not in
\* users.csv, it has created one folder, named by the email, returns that
\* folder's id with is_new = True, and the registry file is the file read
\* with the row (username, email, folder id) appended.
C17_LoginEffects ==
  \A v \in Visitors :
    LET r == login[v]
    IN r.kind = "returned" =>
         IF Known(r)
         THEN /\ ~r.is_new
              /\ r.folder_id.n = FirstRowOf(r.file.rows, r.email).folder_id.n
              /\ Latest(r) => registry = r.file /\ baseFolders = r.folders
         ELSE /\ r.is_new
              /\ r.folder_id = IdStr(Len(r.folders) + 1)
              /\ Latest(r) =>
                   /\ baseFolders = Append(r.folders, r.email)
                   /\ registry.exists
                   /\ Len(registry.rows) = Len(r.file.rows) + 1
                   /\ \A i \in 1..Len(r.file.rows) : registry.rows[i] = r.file.rows[i]
                   /\ registry.rows[Len(registry.rows)] =
                        [username |-> r.username, email |-> r.email,
                         folder_id |-> [type |-> "text", n |-> r.folder_id.n]]

\* A second identity has logged in for the first time: the registry read had
\* one row and has two now.
C17_Witness ==
  \E v \in Visitors :
    /\ login[v].kind = "returned"
    /\ login[v].is_new
    /\ Latest(login[v])
    /\ Len(login[v].file.rows) = 1
    /\ Len(registry.rows) = 2
    /\ Len(baseFolders) = 2

\* -------------------------------------------- claims: session folders
\* C18, as stated: every session folder in the store holds audio.wav and
\* features.csv, whatever save_analysis_to_box calls have run, those whose
\* store calls failed part-way included.
C18_AsStated ==
  \A n \in DOMAIN sessions :
    IsSessionName(n) => sessions[n].audio /\ sessions[n].kind = "csv"

\* ------------------------------------------------- claims: the signal
\* C19, as stated: the samples handed to feature extraction, by
\* read_audio_bytes and by the Split Audio Report tab, are a one-dimensional
\* sequence with one sample per frame of the file, each the mean of the
\* frame's channels (the sample itself when the file has one channel).
C19_AsStated ==
  calc.fn \in {"read_audio_bytes", "split_audio_report_tab"} =>
    /\ calc.y.ndim = 1
    /\ Len(calc.y.data) = Len(calc.audio.frames)
    /\ \A i \in 1..Len(calc.audio.frames) :
         calc.y.data[i] = <<RowMean(calc.audio.frames[i])>>

\* C20, as stated: the F0 estimate of either estimate_f0_praat is the median
\* of the pitch track's non-zero frames, and None when it has none.
C20_AsStated ==
  calc.fn \in {"estimate_f0_praat", "estimate_f0_praat_split"} =>
    LET voiced == SelectSeq(calc.clip.pitch, LAMBDA f : f # 0)
    IN IF voiced = <<>> THEN calc.value = None
       ELSE FloatEq(calc.value, Median(voiced).num, Median(voiced).den)

\* ------------------------------------------- claims: session labels
\* C21, as stated: when the Split Audio Trend tab is opened, every features
\* file an extraction request has written for a date is among the files the
\* tab enumerates, and the frame has its rows under a session label equal
\* to that date.
C21_AsStated ==
  [][(lastRun' # lastRun /\ lastRun'.tab = "trend") =>
       \A i \in 1..Len(SessionDates) :
         LET date == SessionDates[i]
             name == OutputName(date, TrendTask, 1)
         IN HasFile(folder[TrendTask], name) =>
              /\ name \in Range(lastRun'.listed)
              /\ date \in Columns(lastRun'.df)]_vars

\* ------------------------------------------ claims: the user's folder
ChildFolders(entries, parent, name) ==
  {e \in Folders(entries) : e.parent = parent /\ e.name = name}

\* No folder has two child folders of one name, and the last call of
\* ensure_task_folder, when it returned, returned the id of the child folder
\* of that name and left the entries as they were when there was one, made
\* the one folder and returned its id when there was none and it was to
\* create it, and made nothing and returned None otherwise.
EnsuredOnce ==
  /\ \A e \in Folders(box) : Cardinality(ChildFolders(box, e.parent, e.name)) = 1
  /\ (boxCall.fn = "ensure_task_folder" /\ ~boxCall.raised) =>
       LET was == ChildFolders(boxCall.before, boxCall.parent, boxCall.name)
           now == ChildFolders(box, boxCall.parent, boxCall.name)
       IN IF was # {}
          THEN box = boxCall.before /\ \E e \in was : boxCall.ret = IdStr(e.id)
          ELSE IF boxCall.create
          THEN /\ Cardinality(box) = Cardinality(boxCall.before) + 1
               /\ boxCall.before \subseteq box
               /\ \E e \in now : boxCall.ret = IdStr(e.id)
          ELSE box = boxCall.before /\ boxCall.ret = NoId

\* C27: after every call of ensure_task_folder, one call at a time, the
\* above holds, and a call that repeats the call before it, that call having
\* returned a folder's id, returns the same id.
C27_EnsureTaskFolder ==
  [][/\ EnsuredOnce'
     /\ (/\ boxCall.fn = "ensure_task_folder"
         /\ boxCall.ret # NoId
         /\ boxCall'.fn = "ensure_task_folder"
         /\ ~boxCall'.raised
         /\ boxCall'.parent = boxCall.parent
         /\ boxCall'.name = boxCall.name) => boxCall'.ret = boxCall.ret]_vars

\* A call found the folder an earlier call had made, in a folder under the
\* user's folder.
C27_Witness ==
  /\ boxCall.fn = "ensure_task_folder"
  /\ ~boxCall.raised
  /\ boxCall.parent # UserFolder
  /\ ChildFolders(boxCall.before, boxCall.parent, boxCall.name) # {}
  /\ boxCall.ret # NoId
  /\ box = boxCall.before

\* C22, as stated: the Split Audio Report tab, given the PID, date and task
\* of a segment the Audio Saver tab has saved, and the store answering its
\* calls, loads the segment.
C22_AsStated ==
  (/\ boxCall.fn = "split_audio_report_tab"
   /\ boxCall.answered
   /\ <<boxCall.pid, boxCall.date, boxCall.task>> \in saved) => boxCall.loaded

\* --------------------------------------- claims: the cached AI text
\* C23: after every run of the Report tab a stored AI text belongs to the
\* task selected (report_ai_task is the selected task, and so is the task
\* the text was generated for), the AI text displayed is that stored text,
\* and a run in which the selected task changed leaves no stored text and
\* displays none.
C23_CacheFollowsTask ==
  [][/\ (session_state'.report_ai_text # "none" =>
            /\ session_state'.report_ai_task = reportPage'.selected
            /\ session_state'.text_for = reportPage'.selected)
     /\ (reportPage'.ai_shown # "none" =>
            /\ reportPage'.ai_shown = session_state'.report_ai_text
            /\ session_state'.text_for = reportPage'.selected)
     /\ (reportPage'.selected # reportPage.selected =>
            /\ session_state'.report_ai_text = "none"
            /\ reportPage'.ai_shown = "none")]_vars

\* The task was changed while an AI text was stored, and the run cleared it.
C23_Witness ==
  /\ reportPage.cleared
  /\ reportPage.selected \in ReportTasks
  /\ reportPage.buttons
  /\ session_state.report_ai_text = "none"

\* ----------------------------------------------- claims: the registry
RowsOfEmail(rows, email) == {i \in 1..Len(rows) : rows[i].email = email}

\* users.csv has one row for each email whose login has returned and none
\* for the others, and the last call of each visitor that returned gave the
\* folder id the first login of its email gave.
OneRowPerEmail ==
  /\ \A e \in Emails :
       Cardinality(RowsOfEmail(registry.rows, e)) = IF firstLogin[e] = NoId THEN 0 ELSE 1
  /\ \A v \in Visitors :
       login[v].kind = "returned" => login[v].folder_id.n = firstLogin[login[v].email].n

\* C24: with one login running at a time, after every step users.csv has
\* exactly one row for each email that has logged in, every login that
\* returns gives the folder id the first login of its email gave, and the
\* rows users.csv had are still there, unchanged and in their places.
C24_OneRowPerEmail ==
  [][/\ OneRowPerEmail'
     /\ Len(registry'.rows) >= Len(registry.rows)
     /\ \A i \in 1..Len(registry.rows) : registry'.rows[i] = registry.rows[i]]_vars

\* Two identities have logged in, and one of them again: its second login
\* found its row.
C24_Witness ==
  /\ Cardinality({e \in Emails : firstLogin[e] # NoId}) = 2
  /\ Len(registry.rows) = 2
  /\ \E v \in Visitors :
       /\ login[v].kind = "returned"
       /\ ~login[v].is_new
       /\ login[v].folder_id.n = firstLogin[login[v].email].n

\* C25, as stated: once the logins of the visitors have ended, every
\* identity whose first login created its folder has its row in users.csv,
\* also when the logins ran at the same time.
C25_AsStated ==
  (\A v \in Visitors : lpc[v] = "idle") =>
    \A i \in 1..Len(baseFolders) : RowsOfEmail(registry.rows, baseFolders[i]) # {}

\* ------------------------------------------- claims: the trend tab
\* C26, as stated: a request of the Split Audio Trend tab leaves the store
\* as it was, no file uploaded and no folder created, and when the
\* recorder, PID or task folder does not exist it reports that the task
\* folder could not be located.
C26_AsStated ==
  [][lastRun'.tab = "trend" =>
       /\ taskFiles' = taskFiles
       /\ trendPath' = trendPath
       /\ (trendPath < 3 => lastRun'.kind = "error_locate")]_vars

====
